---- MODULE Spec2Model ----
(***************************************************************************)
(* Model of the bubble-based variant caller of rs-gfa-utils                *)
(* (src/src/variants.rs): the bubble path enumerator                       *)
(* find_all_paths_between, the two positional differs                      *)
(* detect_variants_per_reference and detect_variants_against_ref, and the  *)
(* run of detect_all_variants over references, bubbles and candidate       *)
(* paths, with the rendering and sorting of its records; also              *)
(* bubble_subpaths and extract_nodes_in_bubble, load_ultrabubbles          *)
(* (src/src/ultrabubbles.rs) with the printing of gfa2vcf, and the path    *)
(* helpers of src/src/main.rs.                                             *)
(***************************************************************************)
EXTENDS Integers, Sequences, FiniteSets, TLC

(***************************************************************************)
(* Bounds of the model.                                                    *)
(***************************************************************************)
\* node ids are 1..NumNodes
NumNodes == 4
\* a graph has at most MaxLinks directed (rightward) edges, and max_edges is
\* drawn from -1..MaxLinks
MaxLinks == 4
\* a reference path has at most MaxRefLen steps
MaxRefLen == 3
\* a candidate (query) path has at most MaxPathLen steps
MaxPathLen == 3
\* i32::MAX, the largest max_edges
I32Max == 2147483647

Nodes == 1..NumNodes

(***************************************************************************)
(* Graph accessor: g[n] is the list handle_edges_iter(n, Right) yields,    *)
(* as node ids (neighbor.id()).                                            *)
(***************************************************************************)
RECURSIVE SortedSeq(_)
SortedSeq(S) ==
    IF S = {} THEN <<>>
    ELSE LET m == CHOOSE x \in S : \A y \in S : x <= y
         IN <<m>> \o SortedSeq(S \ {m})

\* the nodes reachable from the nodes of R along the links of E
RECURSIVE ReachFrom(_, _)
ReachFrom(E, R) ==
    LET R2 == R \cup {e[2] : e \in {x \in E : x[1] \in R}}
    IN IF R2 = R THEN R ELSE ReachFrom(E, R2)

\* The link sets of at most k links, every link leaving a node reachable
\* from s.  The enumerator reads the edges of dequeued nodes only, and those
\* are reachable from its start node, so the links that leave unreachable
\* nodes are left out of the input graphs.
RECURSIVE LinkSetsFrom(_, _)
LinkSetsFrom(s, k) ==
    IF k = 0 THEN {{}}
    ELSE LET P == LinkSetsFrom(s, k - 1)
         IN P \cup UNION {{E \cup {<<a, b>>} :
                              a \in ReachFrom(E, {s}), b \in Nodes} : E \in P}

\* the edge lists in ascending id order
GraphOf(E) == [n \in Nodes |-> SortedSeq({m \in Nodes : <<n, m>> \in E})]

GraphsFrom(s) == {GraphOf(E) : E \in LinkSetsFrom(s, MaxLinks)}

Budgets == (-1)..MaxLinks

\* The start nodes of the enumerator's runs: the node with the lowest and the
\* node with the highest id.  Edge lists are in ascending id order, so the
\* start is met before, and after, the other neighbors of a node.
Starts == {1, NumNodes}

NumEdges(graph) ==
    Cardinality({e \in Nodes \X Nodes :
                    \E i \in 1..Len(graph[e[1]]) : graph[e[1]][i] = e[2]})

HasEdge(graph, a, b) == \E i \in 1..Len(graph[a]) : graph[a][i] = b

(***************************************************************************)
(* Rust slice helpers.                                                     *)
(***************************************************************************)
\* x.ends_with(&[n])
EndsWith(x, n) == Len(x) > 0 /\ x[Len(x)] = n

\* q.contains(&n)
Contains(s, n) == \E i \in 1..Len(s) : s[i] = n

\* list.retain(|x| x.ends_with(&[n]))
RetainEndingIn(list, n) == SelectSeq(list, LAMBDA x : EndsWith(x, n))

\* list.retain(|x| !x.ends_with(&[n]))
RetainNotEndingIn(list, n) == SelectSeq(list, LAMBDA x : ~EndsWith(x, n))

\* temp.iter_mut().for_each(|x| x.push(n))
PushEach(list, n) == [i \in 1..Len(list) |-> Append(list[i], n)]

(***************************************************************************)
(* find_all_paths_between, as functions on the record of its locals.       *)
(***************************************************************************)
\* what the first push leaves out: an empty path list
FapStart_NoFirstPath(s) ==
    [all_paths_list      |-> <<>>,
     curr_edges          |-> 0,
     edges_limit_reached |-> FALSE,
     visited_node_id_set |-> {},
     q                   |-> <<s>>]

FapStart(s) ==
    [all_paths_list      |-> <<<<s>>>>,
     curr_edges          |-> 0,
     edges_limit_reached |-> FALSE,
     visited_node_id_set |-> {},
     q                   |-> <<s>>]

\* the expansion that does not mark the node visited
FapExpand_NoMark(st, node) ==
    [st EXCEPT !.all_paths_list = RetainNotEndingIn(@, node)]

\* the part of the while body before the for loop, for a dequeued node
\* different from end_node_id
FapExpand(st, node) ==
    [st EXCEPT !.visited_node_id_set = @ \cup {node},
               !.all_paths_list = RetainNotEndingIn(@, node)]

\* the enqueue test without the visited set
FapEnqueues_NoVisited(st, nb) == ~Contains(st.q, nb)

\* whether the for loop enqueues the neighbor
FapEnqueues(st, nb) ==
    nb \notin st.visited_node_id_set /\ ~Contains(st.q, nb)

\* the budget test that lets one more edge through
FapOverBudget_OneMore(edges, max) == edges > max + 1

\* whether the counter, after its increment, is over the budget
FapOverBudget(edges, max) == edges > max

\* one iteration of the for loop over the neighbors
FapNeighbor(st, curr_paths_list, nb, max) ==
    [st EXCEPT !.all_paths_list = @ \o PushEach(curr_paths_list, nb),
               !.q = IF FapEnqueues(st, nb) THEN Append(@, nb) ELSE @,
               !.curr_edges = @ + 1,
               !.edges_limit_reached = FapOverBudget(st.curr_edges + 1, max)]

\* the return without the final retain
FapResult_NoRetain(st, e) == st.all_paths_list

\* the final retain
FapResult(st, e) == RetainEndingIn(st.all_paths_list, e)

\* the whole for loop, with its break
RECURSIVE FapFor(_, _, _, _)
FapFor(st, curr_paths_list, nbrs, max) ==
    IF nbrs = <<>> THEN st
    ELSE LET st2 == FapNeighbor(st, curr_paths_list, Head(nbrs), max)
         IN IF st2.edges_limit_reached THEN st2
            ELSE FapFor(st2, curr_paths_list, Tail(nbrs), max)

\* the whole while loop
RECURSIVE FapWhile(_, _, _, _)
FapWhile(graph, st, e, max) ==
    IF st.q = <<>> THEN st
    ELSE LET node == Head(st.q)
             st1  == [st EXCEPT !.q = Tail(@)]
         IN IF node = e THEN FapWhile(graph, st1, e, max)
            ELSE LET cpl == RetainEndingIn(st1.all_paths_list, node)
                     st2 == FapFor(FapExpand(st1, node), cpl, graph[node], max)
                 IN IF st2.edges_limit_reached THEN st2
                    ELSE FapWhile(graph, st2, e, max)

find_all_paths_between(graph, s, e, max) ==
    FapResult(FapWhile(graph, FapStart(s), e, max), e)

(***************************************************************************)
(* Byte strings are sequences of one-character strings.                    *)
(***************************************************************************)
Digits == <<"0", "1", "2", "3", "4", "5", "6", "7", "8", "9">>

\* usize::to_string
RECURSIVE to_string(_)
to_string(n) ==
    IF n < 10 THEN <<Digits[n + 1]>>
    ELSE to_string(n \div 10) \o <<Digits[(n % 10) + 1]>>

\* [a, b, c].join("_")
Join3(a, b, c) == a \o <<"_">> \o b \o <<"_">> \o c

\* slice[i], 0-based
At(s, i) == s[i + 1]

\* the last byte of a byte string, as a byte string: &seq[seq.len() - 1..]
LastByte(seq) == <<seq[Len(seq)]>>

\* position with None read as index 0
Position_NoneIsZero(s, n) ==
    IF \E i \in 1..Len(s) : s[i] = n
    THEN (CHOOSE i \in 1..Len(s) : s[i] = n /\ \A j \in 1..(i - 1) : s[j] # n) - 1
    ELSE 0

\* ref_path.iter().position(|r| r == n): the first 0-based index, -1 for None
Position(s, n) ==
    IF \E i \in 1..Len(s) : s[i] = n
    THEN (CHOOSE i \in 1..Len(s) : s[i] = n /\ \A j \in 1..(i - 1) : s[j] # n) - 1
    ELSE -1

Min(a, b) == IF a <= b THEN a ELSE b

\* the sequences of at most n nodes
NodeSeqs(n) == UNION {[1..k -> Nodes] : k \in 0..n}

\* the sequences that repeat no node
IsSimple(p) == \A i, j \in 1..Len(p) : i # j => p[i] # p[j]

\* Segment sequences: a table, node id -> bases.
SeqTable1 == <<<<"A", "C">>, <<"G">>, <<"T">>, <<"C">>, <<"G", "A">>>>
SeqTables == {SeqTable1}

\* graph.sequence(Handle::pack(n, false)), segment_sequences.get(&n)
Sequence(tbl, n) == tbl[((n - 1) % Len(tbl)) + 1]

\* the values node_id_to_path_and_pos_map holds for the bubble start
StartOffsets == {0, 9}

RefNames == {<<"r">>}

(***************************************************************************)
(* The walk of detect_variants_per_reference over one candidate path.      *)
(* w holds the locals pos_ref, pos_path, current_index_step_ref,           *)
(* current_index_step_path and the loop counter i; sidx is                 *)
(* start_node_index_in_ref_path.                                           *)
(***************************************************************************)
WalkStart(pos) ==
    [pos_ref                 |-> pos + 1,
     pos_path                |-> pos + 1,
     current_index_step_ref  |-> 0,
     current_index_step_path |-> 0,
     i                       |-> 0]

MaxIndex(path, ref) == Min(Len(path), Len(ref))

\* the branch one iteration of the for loop takes
WalkBranch(ref, path, sidx, w) ==
    LET ri == w.current_index_step_ref + sidx
        pi == w.current_index_step_path
    IN IF ri >= Len(ref) THEN "skip"
       ELSE IF pi >= Len(path) THEN "panic"
       ELSE IF At(ref, ri) = At(path, pi) THEN "match"
       ELSE IF pi + 1 >= Len(path) THEN "break"
       ELSE IF ri + 1 >= Len(ref) THEN "break"
       ELSE IF At(ref, ri + 1) = At(path, pi) THEN
               (IF ri - 1 < 0 THEN "panic" ELSE "del")
       ELSE IF At(path, pi + 1) = At(ref, ri) THEN
               (IF ri - 1 < 0 THEN "panic" ELSE "ins")
       ELSE "snv"

\* get_last: the last byte of the preceding node, then the node's sequence
get_last(prec_node_seq_ref, node_seq_ref) ==
    LastByte(prec_node_seq_ref) \o node_seq_ref

\* the match branch advances only the reference cursor
WalkMatch_RefOnly(tbl, ref, path, sidx, w) ==
    LET node_seq == Sequence(tbl, At(ref, w.current_index_step_ref + sidx))
    IN [w EXCEPT !.pos_ref = @ + Len(node_seq),
                 !.pos_path = w.pos_ref + Len(node_seq),
                 !.current_index_step_ref = @ + 1,
                 !.i = @ + 1]

WalkMatch(tbl, ref, path, sidx, w) ==
    LET node_seq == Sequence(tbl, At(ref, w.current_index_step_ref + sidx))
    IN [w EXCEPT !.pos_ref = @ + Len(node_seq),
                 !.pos_path = w.pos_ref + Len(node_seq),
                 !.current_index_step_ref = @ + 1,
                 !.current_index_step_path = @ + 1,
                 !.i = @ + 1]

DelKey(name, tbl, ref, path, sidx, w) ==
    LET ri == w.current_index_step_ref + sidx
    IN Join3(name, to_string(w.pos_path - 1),
             get_last(Sequence(tbl, At(ref, ri - 1)), Sequence(tbl, At(ref, ri))))

DelAlt(tbl, ref, path, sidx, w) ==
    LastByte(Sequence(tbl, At(ref, w.current_index_step_ref + sidx - 1)))
        \o <<"_", "d", "e", "l">>

WalkDel(tbl, ref, path, sidx, w) ==
    LET node_seq_ref == Sequence(tbl, At(ref, w.current_index_step_ref + sidx))
    IN [w EXCEPT !.pos_ref = @ + Len(node_seq_ref),
                 !.current_index_step_ref = @ + 1,
                 !.i = @ + 1]

InsKey(name, tbl, ref, path, sidx, w) ==
    LET ri == w.current_index_step_ref + sidx
    IN Join3(name, to_string(w.pos_ref - 1),
             LastByte(Sequence(tbl, At(ref, ri - 1))))

InsAlt(tbl, ref, path, sidx, w) ==
    LastByte(Sequence(tbl, At(ref, w.current_index_step_ref + sidx - 1)))
        \o Sequence(tbl, At(path, w.current_index_step_path))
        \o <<"_", "i", "n", "s">>

WalkIns(tbl, ref, path, sidx, w) ==
    LET node_seq_path == Sequence(tbl, At(path, w.current_index_step_path))
    IN [w EXCEPT !.pos_path = @ + Len(node_seq_path),
                 !.current_index_step_path = @ + 1,
                 !.i = @ + 1]

\* the key of a substitution carries the candidate node's sequence
SnvKey_PathSeq(name, tbl, ref, path, sidx, w) ==
    Join3(name, to_string(w.pos_path),
          Sequence(tbl, At(path, w.current_index_step_path)))

SnvKey(name, tbl, ref, path, sidx, w) ==
    Join3(name, to_string(w.pos_path),
          Sequence(tbl, At(ref, w.current_index_step_ref + sidx)))

SnvAlt(tbl, ref, path, sidx, w) ==
    LastByte(Sequence(tbl, At(path, w.current_index_step_path)))
        \o <<"_", "s", "n", "v">>

WalkSnv(tbl, ref, path, sidx, w) ==
    LET node_seq_ref  == Sequence(tbl, At(ref, w.current_index_step_ref + sidx))
        node_seq_path == Sequence(tbl, At(path, w.current_index_step_path))
    IN [w EXCEPT !.pos_ref = @ + Len(node_seq_ref),
                 !.pos_path = @ + Len(node_seq_path),
                 !.current_index_step_ref = @ + 1,
                 !.current_index_step_path = @ + 1,
                 !.i = @ + 1]

\* the continue of the bounds check: only the loop counter moves
WalkSkip(w) == [w EXCEPT !.i = @ + 1]

\* the insert that leaves the set of a key that is already there alone
MapInsert_KeepFirst(m, key, alt) ==
    [k \in DOMAIN m \cup {key} |->
        IF k = key
        THEN (IF key \in DOMAIN m THEN m[key] ELSE {alt})
        ELSE m[k]]

\* the insert that replaces the set of the key
MapInsert_Replace(m, key, alt) ==
    [k \in DOMAIN m \cup {key} |-> IF k = key THEN {alt} ELSE m[k]]

\* stuff_to_alts_map.entry(key).or_insert_with(HashSet::new), then
\* stuff_to_alts_map.get_mut(&key).unwrap().insert(alt)
MapInsert(m, key, alt) ==
    [k \in DOMAIN m \cup {key} |->
        IF k = key
        THEN (IF key \in DOMAIN m THEN m[key] ELSE {}) \cup {alt}
        ELSE m[k]]

EmptyMap == [k \in {} |-> {}]

(***************************************************************************)
(* detect_variants_against_ref.  a holds ref_ix, query_ix, ref_seq_ix and  *)
(* query_seq_ix.                                                           *)
(***************************************************************************)
ArStart ==
    [ref_ix |-> 0, query_ix |-> 0, ref_seq_ix |-> 0, query_seq_ix |-> 0]

\* The branch one iteration of the loop takes.  "panic" is an index out of
\* range, or the subtraction ref_ix - 1 (or seq_ix - 1) below zero: the
\* subtraction panics in a debug build and wraps to an out-of-range index or
\* position in a release build.
ArBranch(ref, query, a) ==
    IF a.ref_ix >= Len(ref) \/ a.query_ix >= Len(query) THEN "end"
    ELSE IF At(ref, a.ref_ix) = At(query, a.query_ix) THEN "match"
    ELSE IF a.ref_ix + 1 >= Len(ref) THEN "panic"
    ELSE IF a.query_ix + 1 >= Len(query) THEN "panic"
    ELSE IF At(ref, a.ref_ix + 1) = At(query, a.query_ix) THEN
            (IF a.ref_ix = 0 \/ a.query_seq_ix = 0 THEN "panic" ELSE "del")
    ELSE IF At(query, a.query_ix + 1) = At(ref, a.ref_ix) THEN
            (IF a.ref_ix = 0 \/ a.ref_seq_ix = 0 THEN "panic" ELSE "ins")
    ELSE "snv"

VariantKey(name, sequence, pos) ==
    [ref_name |-> name, sequence |-> sequence, pos |-> pos]

\* the match branch advances only the reference cursor
ArMatch_RefOnly(tbl, ref, query, a) ==
    [a EXCEPT !.ref_ix = @ + 1,
              !.ref_seq_ix = @ + Len(Sequence(tbl, At(ref, a.ref_ix)))]

ArMatch(tbl, ref, query, a) ==
    [a EXCEPT !.ref_ix = @ + 1,
              !.ref_seq_ix = @ + Len(Sequence(tbl, At(ref, a.ref_ix))),
              !.query_ix = @ + 1,
              !.query_seq_ix = @ + Len(Sequence(tbl, At(query, a.query_ix)))]

ArDelKey(name, tbl, ref, query, a) ==
    VariantKey(name,
               LastByte(Sequence(tbl, At(ref, a.ref_ix - 1)))
                   \o Sequence(tbl, At(ref, a.ref_ix)),
               a.query_seq_ix - 1)

ArDelVariant(tbl, ref, query, a) ==
    [kind |-> "Del", val |-> LastByte(Sequence(tbl, At(ref, a.ref_ix - 1)))]

ArDel(tbl, ref, query, a) ==
    [a EXCEPT !.ref_ix = @ + 1,
              !.ref_seq_ix = @ + Len(Sequence(tbl, At(ref, a.ref_ix)))]

ArInsKey(name, tbl, ref, query, a) ==
    VariantKey(name,
               LastByte(Sequence(tbl, At(ref, a.ref_ix - 1)))
                   \o Sequence(tbl, At(ref, a.ref_ix)),
               a.ref_seq_ix - 1)

ArInsVariant(tbl, ref, query, a) ==
    [kind |-> "Ins", val |-> LastByte(Sequence(tbl, At(ref, a.ref_ix - 1)))]

ArIns(tbl, ref, query, a) ==
    [a EXCEPT !.query_ix = @ + 1,
              !.query_seq_ix = @ + Len(Sequence(tbl, At(query, a.query_ix)))]

ArSnvKey(name, tbl, ref, query, a) ==
    VariantKey(name, Sequence(tbl, At(ref, a.ref_ix)), a.query_seq_ix)

ArSnvVariant(tbl, ref, query, a) ==
    [kind |-> "Snv", val |-> LastByte(Sequence(tbl, At(query, a.query_ix)))]

ArSnv(tbl, ref, query, a) ==
    [a EXCEPT !.ref_ix = @ + 1,
              !.ref_seq_ix = @ + Len(Sequence(tbl, At(ref, a.ref_ix))),
              !.query_ix = @ + 1,
              !.query_seq_ix = @ + Len(Sequence(tbl, At(query, a.query_ix)))]

\* variants.insert(key, variant): a later insert replaces the value
HashInsert(m, key, v) ==
    [k \in DOMAIN m \cup {key} |-> IF k = key THEN v ELSE m[k]]

(***************************************************************************)
(* detect_all_variants: the walk over one candidate path as a whole, and   *)
(* the rendering and sorting of the aggregate map.                         *)
(***************************************************************************)
\* The for loop of detect_variants_per_reference over one candidate path,
\* from the locals w and the aggregate map m to the loop's end or break.
\* abort is an index below zero (ref_path[.. - 1]).
RECURSIVE WalkLoop(_, _, _, _, _, _, _)
WalkLoop(name, tbl, ref, path, sidx, w, m) ==
    IF w.i >= MaxIndex(path, ref) THEN [map |-> m, abort |-> FALSE]
    ELSE LET b == WalkBranch(ref, path, sidx, w)
         IN CASE b = "match" ->
                   WalkLoop(name, tbl, ref, path, sidx,
                            WalkMatch(tbl, ref, path, sidx, w), m)
              [] b = "del" ->
                   WalkLoop(name, tbl, ref, path, sidx,
                            WalkDel(tbl, ref, path, sidx, w),
                            MapInsert(m, DelKey(name, tbl, ref, path, sidx, w),
                                      DelAlt(tbl, ref, path, sidx, w)))
              [] b = "ins" ->
                   WalkLoop(name, tbl, ref, path, sidx,
                            WalkIns(tbl, ref, path, sidx, w),
                            MapInsert(m, InsKey(name, tbl, ref, path, sidx, w),
                                      InsAlt(tbl, ref, path, sidx, w)))
              [] b = "snv" ->
                   WalkLoop(name, tbl, ref, path, sidx,
                            WalkSnv(tbl, ref, path, sidx, w),
                            MapInsert(m, SnvKey(name, tbl, ref, path, sidx, w),
                                      SnvAlt(tbl, ref, path, sidx, w)))
              [] b = "skip" ->
                   WalkLoop(name, tbl, ref, path, sidx, WalkSkip(w), m)
              [] b = "break" -> [map |-> m, abort |-> FALSE]
              [] b = "panic" -> [map |-> m, abort |-> TRUE]

\* chrom_pos_ref.split_str("_"): the pieces between the separators
RECURSIVE split_str(_, _)
split_str(s, sep) ==
    IF \A i \in 1..Len(s) : s[i] # sep THEN <<s>>
    ELSE LET k == CHOOSE i \in 1..Len(s) :
                     s[i] = sep /\ \A j \in 1..(i - 1) : s[j] # sep
         IN <<SubSeq(s, 1, k - 1)>> \o split_str(SubSeq(s, k + 1, Len(s)), sep)

\* list.join(sep)
RECURSIVE join(_, _)
join(list, sep) ==
    IF list = <<>> THEN <<>>
    ELSE IF Len(list) = 1 THEN list[1]
    ELSE list[1] \o sep \o join(Tail(list), sep)

\* whether pos.parse::<i32>() is Ok for an unsigned decimal
RECURSIVE parse(_)
parse(s) ==
    IF s = <<>> THEN 0
    ELSE parse(SubSeq(s, 1, Len(s) - 1)) * 10
            + ((CHOOSE d \in 1..10 : Digits[d] = s[Len(s)]) - 1)

ParseOk(s) ==
    /\ Len(s) >= 1
    /\ \A i \in 1..Len(s) : \E d \in 1..10 : Digits[d] = s[i]
    /\ parse(s) <= I32Max

\* The record built from one entry of stuff_to_alts_map; alt_type_set is the
\* entry's set in the order its iterator yields it.
VCFRecord(chrom_pos_ref, alt_type_set) ==
    LET vec      == split_str(chrom_pos_ref, "_")
        alt_list == [i \in 1..Len(alt_type_set) |->
                        At(split_str(alt_type_set[i], "_"), 0)]
        type_set == [i \in 1..Len(alt_type_set) |->
                        At(split_str(alt_type_set[i], "_"), 1)]
    IN [chromosome |-> At(vec, 0),
        position   |-> parse(At(vec, 1)),
        reference  |-> At(vec, 2),
        alternate  |-> join(alt_list, <<",">>),
        info       |-> <<"T", "Y", "P", "E", "=">>
                          \o join(type_set, <<";", "T", "Y", "P", "E", "=">>)]

\* the bytes of the model in ascending order of their value
Alphabet == <<",", "0", "1", "2", "3", "4", "5", "6", "7", "8", "9", ";", "=",
              "A", "C", "E", "G", "P", "T", "Y", "_", "d", "e", "i", "l", "n",
              "r", "s", "v">>

ByteRank(c) == CHOOSE i \in 1..Len(Alphabet) : Alphabet[i] = c

\* a.cmp(&b) on byte strings
RECURSIVE BytesCmp(_, _)
BytesCmp(a, b) ==
    IF a = <<>> /\ b = <<>> THEN "Equal"
    ELSE IF a = <<>> THEN "Less"
    ELSE IF b = <<>> THEN "Greater"
    ELSE IF ByteRank(Head(a)) < ByteRank(Head(b)) THEN "Less"
    ELSE IF ByteRank(Head(a)) > ByteRank(Head(b)) THEN "Greater"
    ELSE BytesCmp(Tail(a), Tail(b))

IntCmp(a, b) == IF a < b THEN "Less" ELSE IF a > b THEN "Greater" ELSE "Equal"

\* the comparison without its position arm
VcfCmp_ChromosomeOnly(a, b) == BytesCmp(a.chromosome, b.chromosome)

\* the closure of vcf_list.sort_by
VcfCmp(a, b) ==
    IF BytesCmp(a.chromosome, b.chromosome) = "Equal"
    THEN IntCmp(a.position, b.position)
    ELSE BytesCmp(a.chromosome, b.chromosome)

\* sort_by is stable: x goes after every element that is not greater
RECURSIVE SortInsert(_, _)
SortInsert(sorted, x) ==
    IF sorted = <<>> THEN <<x>>
    ELSE IF VcfCmp(sorted[Len(sorted)], x) = "Greater"
         THEN Append(SortInsert(SubSeq(sorted, 1, Len(sorted) - 1), x),
                     sorted[Len(sorted)])
         ELSE Append(sorted, x)

RECURSIVE sort_by(_)
sort_by(list) ==
    IF list = <<>> THEN <<>>
    ELSE SortInsert(sort_by(SubSeq(list, 1, Len(list) - 1)), list[Len(list)])

\* the orders in which an iterator over a HashMap or a HashSet can yield S
IterOrders(S) ==
    {o \in [1..Cardinality(S) -> S] : \A i, j \in 1..Cardinality(S) :
                                          i # j => o[i] # o[j]}

(***************************************************************************)
(* State of one call of find_all_paths_between.                            *)
(***************************************************************************)
VARIABLES
    g,                    \* the graph (input)
    start_node_id,        \* input
    end_node_id,          \* input
    max_edges,            \* input
    all_paths_list,
    curr_edges,
    edges_limit_reached,
    visited_node_id_set,
    q,
    curr_node,            \* the node dequeued by the current while iteration
    curr_paths_list,      \* the prefixes that ended in curr_node
    nbrs,                 \* what the for loop's iterator has left
    expanded,             \* ghost: the nodes dequeued and expanded, in order
    pc                    \* "while", "for", "retain", "done"

(***************************************************************************)
(* State of one comparison of a reference path with a candidate path.      *)
(***************************************************************************)
VARIABLES
    fn,                   \* the differ that runs: "per_reference", "against_ref"
    current_ref,          \* the reference name (ref_name)
    segment_sequences,    \* node id -> bases
    ref_path,             \* input
    path,                 \* the candidate path (query_path)
    pos_in_map,           \* node_id_to_path_and_pos_map[start][current_ref]
    walk,                 \* the locals of the per_reference walk
    stuff_to_alts_map,    \* key -> set of alternates
    ar,                   \* the locals of detect_variants_against_ref
    variants,             \* VariantKey -> Variant
    dpc                   \* "bubble", "walk", "loop", "done", "panic"

enumVars == <<g, start_node_id, end_node_id, max_edges, all_paths_list,
              curr_edges, edges_limit_reached, visited_node_id_set, q,
              curr_node, curr_paths_list, nbrs, expanded, pc>>

diffVars == <<fn, current_ref, segment_sequences, ref_path, path, pos_in_map,
              walk, stuff_to_alts_map, ar, variants, dpc>>

(***************************************************************************)
(* State of one call of detect_all_variants.  The call also uses g,        *)
(* max_edges, segment_sequences (graph.sequence), current_ref, ref_path    *)
(* and stuff_to_alts_map.                                                  *)
(***************************************************************************)
VARIABLES
    reference_paths,              \* input: the names to call variants against
    path_to_steps_map,            \* input: name -> steps
    possible_bubbles_list,        \* input: the (start, end) pairs
    node_id_to_path_and_pos_map,  \* input: node -> name -> offset
    all_path_list,                \* the candidate paths of the current bubble
    it,                           \* how far the three for loops have come
    vcf_list,
    hist,                         \* ghost: the enumerator calls and the anchors
    rpc                           \* "refs", "bubbles", "paths", "done", "panic"

runVars == <<reference_paths, path_to_steps_map, possible_bubbles_list,
             node_id_to_path_and_pos_map, all_path_list, it, vcf_list, hist,
             rpc>>

(***************************************************************************)
(* State of one call of gfa2vcf with an ultrabubbles file, as far as       *)
(* load_ultrabubbles and the printing are concerned.                       *)
(***************************************************************************)
VARIABLES
    load    \* lines: the file's lines; line: the index of the next one;
            \* ultrabubbles: the set being filled; result: what
            \* load_ultrabubbles returned; printed: what gfa2vcf has printed

(***************************************************************************)
(* State of one call of a path helper of main.rs.  A path is the sequence  *)
(* of its components; a component is a byte string.                        *)
(***************************************************************************)
VARIABLES
    ph      \* helper: the function called; path: its argument; new_path:
            \* the local it returns

(***************************************************************************)
(* State of one call of bubble_subpaths.                                   *)
(***************************************************************************)
VARIABLES
    sub     \* paths: gfa.paths, each with its steps and the length of its
            \* overlaps; from, to: the boundaries; next: the index of the
            \* path the filter_map is at; result: the SubPaths collected

(***************************************************************************)
(* State of one call of extract_nodes_in_bubble.                           *)
(***************************************************************************)
VARIABLES
    ext     \* graph, from, to: the arguments; visited, parents, stack,
            \* paths: the locals of the search; cur_step, cur_path: the
            \* locals of a back-trace

auxVars == <<load, ph, sub, ext>>

vars == <<enumVars, diffVars, runVars, auxVars>>

LoadIdle ==
    load = [lines |-> <<>>, line |-> 0, ultrabubbles |-> {},
            result |-> [ok |-> FALSE, err |-> "none"], printed |-> <<>>,
            pc |-> "idle"]

PathIdle == ph = [helper |-> "none", path |-> <<>>, new_path |-> <<>>,
                  pc |-> "idle"]

SubIdle == sub = [paths |-> <<>>, from |-> 0, to |-> 0, next |-> 0,
                  result |-> <<>>, pc |-> "idle"]

ExtIdle ==
    ext = [graph |-> [n \in Nodes |-> <<>>], from |-> 0, to |-> 0,
           visited |-> {}, parents |-> EmptyMap, stack |-> <<>>,
           paths |-> {}, cur_step |-> 0, cur_path |-> <<>>, pc |-> "idle"]

\* the variables of the functions that are looked at on their own
AuxIdle == LoadIdle /\ PathIdle /\ SubIdle /\ ExtIdle

\* the variables of detect_all_variants while another function is looked at
RunIdle ==
    /\ reference_paths = <<>>
    /\ path_to_steps_map = EmptyMap
    /\ possible_bubbles_list = <<>>
    /\ node_id_to_path_and_pos_map = EmptyMap
    /\ all_path_list = <<>>
    /\ it = [ref |-> 0, bubble |-> 0, path |-> 0]
    /\ vcf_list = <<>>
    /\ hist = [enumerated |-> <<>>, anchors |-> {}]
    /\ rpc = "idle"

\* the differ's variables while the enumerator is looked at alone
DiffIdle ==
    /\ fn = "none"
    /\ current_ref = <<>>
    /\ segment_sequences = <<>>
    /\ ref_path = <<>>
    /\ path = <<>>
    /\ pos_in_map = 0
    /\ walk = WalkStart(0)
    /\ stuff_to_alts_map = EmptyMap
    /\ ar = ArStart
    /\ variants = EmptyMap
    /\ dpc = "idle"

\* the enumerator's variables while the differs are looked at alone
EnumIdle ==
    /\ g = [n \in Nodes |-> <<>>]
    /\ start_node_id = 0
    /\ end_node_id = 0
    /\ max_edges = 0
    /\ all_paths_list = <<>>
    /\ curr_edges = 0
    /\ edges_limit_reached = FALSE
    /\ visited_node_id_set = {}
    /\ q = <<>>
    /\ curr_node = 0
    /\ curr_paths_list = <<>>
    /\ nbrs = <<>>
    /\ expanded = <<>>
    /\ pc = "idle"

Locals ==
    [all_paths_list      |-> all_paths_list,
     curr_edges          |-> curr_edges,
     edges_limit_reached |-> edges_limit_reached,
     visited_node_id_set |-> visited_node_id_set,
     q                   |-> q]

SetLocals(st) ==
    /\ all_paths_list' = st.all_paths_list
    /\ curr_edges' = st.curr_edges
    /\ edges_limit_reached' = st.edges_limit_reached
    /\ visited_node_id_set' = st.visited_node_id_set
    /\ q' = st.q

EnumInit ==
    /\ start_node_id \in Starts
    /\ g \in GraphsFrom(start_node_id)
    /\ end_node_id \in Nodes
    /\ max_edges \in Budgets
    /\ all_paths_list = FapStart(start_node_id).all_paths_list
    /\ curr_edges = FapStart(start_node_id).curr_edges
    /\ edges_limit_reached = FapStart(start_node_id).edges_limit_reached
    /\ visited_node_id_set = FapStart(start_node_id).visited_node_id_set
    /\ q = FapStart(start_node_id).q
    /\ curr_node = 0
    /\ curr_paths_list = <<>>
    /\ nbrs = <<>>
    /\ expanded = <<>>
    /\ pc = "while"
    /\ DiffIdle
    /\ RunIdle
    /\ AuxIdle

\* while !q.is_empty() fails: leave the loop
WhileExit ==
    /\ pc = "while"
    /\ q = <<>>
    /\ pc' = "retain"
    /\ UNCHANGED <<auxVars, runVars, diffVars, g, start_node_id, end_node_id, max_edges, all_paths_list,
                   curr_edges, edges_limit_reached, visited_node_id_set, q,
                   curr_node, curr_paths_list, nbrs, expanded>>

\* pop_front gives end_node_id: continue
DequeueEnd ==
    /\ pc = "while"
    /\ q # <<>>
    /\ Head(q) = end_node_id
    /\ curr_node' = Head(q)
    /\ q' = Tail(q)
    /\ UNCHANGED <<auxVars, runVars, diffVars, g, start_node_id, end_node_id, max_edges, all_paths_list,
                   curr_edges, edges_limit_reached, visited_node_id_set,
                   curr_paths_list, nbrs, expanded, pc>>

\* pop_front gives another node: mark it visited, split the path list
Dequeue ==
    /\ pc = "while"
    /\ q # <<>>
    /\ Head(q) # end_node_id
    /\ LET node == Head(q)
           st1  == [Locals EXCEPT !.q = Tail(@)]
       IN /\ curr_node' = node
          /\ curr_paths_list' = RetainEndingIn(st1.all_paths_list, node)
          /\ SetLocals(FapExpand(st1, node))
          /\ nbrs' = g[node]
          /\ expanded' = Append(expanded, node)
    /\ pc' = "for"
    /\ UNCHANGED <<auxVars, runVars, diffVars, g, start_node_id, end_node_id, max_edges>>

\* one iteration of the for loop; the break leaves both loops
ForNeighbor ==
    /\ pc = "for"
    /\ nbrs # <<>>
    /\ LET st2 == FapNeighbor(Locals, curr_paths_list, Head(nbrs), max_edges)
       IN /\ SetLocals(st2)
          /\ pc' = IF st2.edges_limit_reached THEN "retain" ELSE "for"
    /\ nbrs' = Tail(nbrs)
    /\ UNCHANGED <<auxVars, runVars, diffVars, g, start_node_id, end_node_id, max_edges, curr_node,
                   curr_paths_list, expanded>>

\* the iterator is exhausted: next while iteration
ForEnd ==
    /\ pc = "for"
    /\ nbrs = <<>>
    /\ pc' = "while"
    /\ UNCHANGED <<auxVars, runVars, diffVars, g, start_node_id, end_node_id, max_edges, all_paths_list,
                   curr_edges, edges_limit_reached, visited_node_id_set, q,
                   curr_node, curr_paths_list, nbrs, expanded>>

\* all_paths_list.retain(ends with end_node_id); return
Return ==
    /\ pc = "retain"
    /\ all_paths_list' = FapResult(Locals, end_node_id)
    /\ pc' = "done"
    /\ UNCHANGED <<auxVars, runVars, diffVars, g, start_node_id, end_node_id, max_edges, curr_edges,
                   edges_limit_reached, visited_node_id_set, q, curr_node,
                   curr_paths_list, nbrs, expanded>>

EnumNext ==
    \/ WhileExit
    \/ DequeueEnd
    \/ Dequeue
    \/ ForNeighbor
    \/ ForEnd
    \/ Return

SpecEnum == EnumInit /\ [][EnumNext]_vars

\* the graphs of the runs under fairness have at most LiveLinks links
LiveLinks == 3

EnumLiveInit == EnumInit /\ NumEdges(g) <= LiveLinks

\* The loops of the call run on: a call that can take a step takes one.
SpecEnumLive == EnumLiveInit /\ [][EnumNext]_vars /\ WF_vars(EnumNext)

(***************************************************************************)
(* The differs as state machines.                                          *)
(***************************************************************************)
\* the bubble of the candidate path
BubbleStart == path[1]

\* the walk that begins at the head of ref_path, wherever the start occurs
StartIndex_Head == IF Contains(ref_path, BubbleStart) THEN 0 ELSE -1

\* start_node_index_in_ref_path
StartIndex == Position(ref_path, BubbleStart)

\* the reference paths of the comparisons; those given to
\* detect_variants_against_ref begin with node 1
DiffRefPaths(f) ==
    IF f = "per_reference" THEN NodeSeqs(MaxRefLen)
    ELSE {r \in NodeSeqs(MaxRefLen) : r # <<>> => r[1] = 1}

DiffInit ==
    /\ fn \in {"per_reference", "against_ref"}
    /\ current_ref \in RefNames
    /\ segment_sequences \in SeqTables
    /\ ref_path \in DiffRefPaths(fn)
    /\ path \in IF fn = "per_reference"
                THEN {p \in NodeSeqs(MaxPathLen) : Len(p) >= 1 /\ IsSimple(p)}
                ELSE NodeSeqs(MaxPathLen)
    /\ pos_in_map \in IF fn = "per_reference" THEN StartOffsets ELSE {0}
    /\ walk = WalkStart(0)
    /\ stuff_to_alts_map = EmptyMap
    /\ ar = ArStart
    /\ variants = EmptyMap
    /\ dpc = IF fn = "per_reference" THEN "bubble" ELSE "loop"
    /\ EnumIdle
    /\ RunIdle
    /\ AuxIdle

DiffInputs == <<fn, current_ref, segment_sequences, ref_path, path, pos_in_map>>

\* the bubble's start is not on the reference path: next bubble
BubbleSkip ==
    /\ dpc = "bubble"
    /\ StartIndex = -1
    /\ dpc' = "done"
    /\ UNCHANGED <<auxVars, runVars, enumVars, DiffInputs, walk, stuff_to_alts_map, ar, variants>>

\* the start is found; the walk over the candidate path begins
WalkBegin ==
    /\ dpc = "bubble"
    /\ StartIndex # -1
    /\ walk' = WalkStart(pos_in_map)
    /\ dpc' = "walk"
    /\ UNCHANGED <<auxVars, runVars, enumVars, DiffInputs, stuff_to_alts_map, ar, variants>>

Walking(branch) ==
    /\ dpc = "walk"
    /\ walk.i < MaxIndex(path, ref_path)
    /\ WalkBranch(ref_path, path, StartIndex, walk) = branch

WalkStepMatch ==
    /\ Walking("match")
    /\ walk' = WalkMatch(segment_sequences, ref_path, path, StartIndex, walk)
    /\ UNCHANGED <<auxVars, runVars, enumVars, DiffInputs, stuff_to_alts_map, ar, variants, dpc>>

WalkStepDel ==
    /\ Walking("del")
    /\ stuff_to_alts_map' =
          MapInsert(stuff_to_alts_map,
                    DelKey(current_ref, segment_sequences, ref_path, path,
                           StartIndex, walk),
                    DelAlt(segment_sequences, ref_path, path, StartIndex, walk))
    /\ walk' = WalkDel(segment_sequences, ref_path, path, StartIndex, walk)
    /\ UNCHANGED <<auxVars, runVars, enumVars, DiffInputs, ar, variants, dpc>>

WalkStepIns ==
    /\ Walking("ins")
    /\ stuff_to_alts_map' =
          MapInsert(stuff_to_alts_map,
                    InsKey(current_ref, segment_sequences, ref_path, path,
                           StartIndex, walk),
                    InsAlt(segment_sequences, ref_path, path, StartIndex, walk))
    /\ walk' = WalkIns(segment_sequences, ref_path, path, StartIndex, walk)
    /\ UNCHANGED <<auxVars, runVars, enumVars, DiffInputs, ar, variants, dpc>>

WalkStepSnv ==
    /\ Walking("snv")
    /\ stuff_to_alts_map' =
          MapInsert(stuff_to_alts_map,
                    SnvKey(current_ref, segment_sequences, ref_path, path,
                           StartIndex, walk),
                    SnvAlt(segment_sequences, ref_path, path, StartIndex, walk))
    /\ walk' = WalkSnv(segment_sequences, ref_path, path, StartIndex, walk)
    /\ UNCHANGED <<auxVars, runVars, enumVars, DiffInputs, ar, variants, dpc>>

\* the reference cursor is past the end of ref_path: continue
WalkStepSkip ==
    /\ Walking("skip")
    /\ walk' = WalkSkip(walk)
    /\ UNCHANGED <<auxVars, runVars, enumVars, DiffInputs, stuff_to_alts_map, ar, variants, dpc>>

\* no lookahead on the candidate or on the reference: break
WalkStepBreak ==
    /\ Walking("break")
    /\ dpc' = "done"
    /\ UNCHANGED <<auxVars, runVars, enumVars, DiffInputs, walk, stuff_to_alts_map, ar, variants>>

\* the for loop has run max_index times
WalkEnd ==
    /\ dpc = "walk"
    /\ walk.i >= MaxIndex(path, ref_path)
    /\ dpc' = "done"
    /\ UNCHANGED <<auxVars, runVars, enumVars, DiffInputs, walk, stuff_to_alts_map, ar, variants>>

Looping(branch) ==
    /\ dpc = "loop"
    /\ ArBranch(ref_path, path, ar) = branch

ArStepMatch ==
    /\ Looping("match")
    /\ ar' = ArMatch(segment_sequences, ref_path, path, ar)
    /\ UNCHANGED <<auxVars, runVars, enumVars, DiffInputs, walk, stuff_to_alts_map, variants, dpc>>

ArStepDel ==
    /\ Looping("del")
    /\ variants' = HashInsert(variants,
                              ArDelKey(current_ref, segment_sequences, ref_path,
                                       path, ar),
                              ArDelVariant(segment_sequences, ref_path, path, ar))
    /\ ar' = ArDel(segment_sequences, ref_path, path, ar)
    /\ UNCHANGED <<auxVars, runVars, enumVars, DiffInputs, walk, stuff_to_alts_map, dpc>>

ArStepIns ==
    /\ Looping("ins")
    /\ variants' = HashInsert(variants,
                              ArInsKey(current_ref, segment_sequences, ref_path,
                                       path, ar),
                              ArInsVariant(segment_sequences, ref_path, path, ar))
    /\ ar' = ArIns(segment_sequences, ref_path, path, ar)
    /\ UNCHANGED <<auxVars, runVars, enumVars, DiffInputs, walk, stuff_to_alts_map, dpc>>

ArStepSnv ==
    /\ Looping("snv")
    /\ variants' = HashInsert(variants,
                              ArSnvKey(current_ref, segment_sequences, ref_path,
                                       path, ar),
                              ArSnvVariant(segment_sequences, ref_path, path, ar))
    /\ ar' = ArSnv(segment_sequences, ref_path, path, ar)
    /\ UNCHANGED <<auxVars, runVars, enumVars, DiffInputs, walk, stuff_to_alts_map, dpc>>

\* an index out of range aborts the call
ArPanic ==
    /\ Looping("panic")
    /\ dpc' = "panic"
    /\ UNCHANGED <<auxVars, runVars, enumVars, DiffInputs, walk, stuff_to_alts_map, ar, variants>>

\* a cursor is at the end of its path: return variants
ArReturn ==
    /\ Looping("end")
    /\ dpc' = "done"
    /\ UNCHANGED <<auxVars, runVars, enumVars, DiffInputs, walk, stuff_to_alts_map, ar, variants>>

DiffNext ==
    \/ BubbleSkip
    \/ WalkBegin
    \/ WalkStepMatch
    \/ WalkStepDel
    \/ WalkStepIns
    \/ WalkStepSnv
    \/ WalkStepSkip
    \/ WalkStepBreak
    \/ WalkEnd
    \/ ArStepMatch
    \/ ArStepDel
    \/ ArStepIns
    \/ ArStepSnv
    \/ ArPanic
    \/ ArReturn

SpecDiff == DiffInit /\ [][DiffNext]_vars

(***************************************************************************)
(* detect_all_variants as a state machine.                                 *)
(***************************************************************************)
\* lists passed to detect_all_variants have at most MaxList entries
MaxList == 2

RunNames == {<<"r">>, <<"s">>}

\* 1 -> 2 -> 4 and 1 -> 3 -> 4
Diamond == {<<1, 2>>, <<1, 3>>, <<2, 4>>, <<3, 4>>}

\* 1 -> 4 -> 3 -> 2
Chain == {<<1, 4>>, <<4, 3>>, <<3, 2>>}

RunGraphs == {GraphOf(Diamond), GraphOf(Chain)}

RunBudgets == {MaxLinks}

RunBubbles == {<<1, 4>>, <<1, 2>>, <<3, 4>>}

\* The reference paths of the runs, of four steps each: node 1 is on both,
\* more than once; node 3 is on the second only.
RunRefPaths == {<<1, 1, 1, 1>>, <<1, 2, 1, 3>>}

\* a table in which node 2 reads as the last base of itself and then node 1
SeqTable2 == <<<<"T">>, <<"T", "T">>, <<"G">>, <<"T">>, <<"G", "A">>>>

RunTables == {SeqTable1, SeqTable2}

ListsOf(S) == UNION {[1..k -> S] : k \in 0..MaxList}

\* r alone, or r and s
PathMaps == UNION {[D -> RunRefPaths] : D \in {{<<"r">>}, RunNames}}

\* the number of bases of the first k nodes of p
RECURSIVE OffsetOf(_, _, _)
OffsetOf(tbl, p, k) ==
    IF k = 0 THEN 0 ELSE OffsetOf(tbl, p, k - 1) + Len(Sequence(tbl, p[k]))

\* node -> name -> the offset of the node's first occurrence on the path
PosMap(tbl, pm) ==
    [n \in {x \in Nodes : \E name \in DOMAIN pm : Contains(pm[name], x)} |->
        [name \in {x \in DOMAIN pm : Contains(pm[x], n)} |->
            OffsetOf(tbl, pm[name], Position(pm[name], n))]]

\* the map without the node n
WithoutNode(m, n) == [x \in DOMAIN m \ {n} |-> m[x]]

\* the map without the name in the entry of any node
WithoutName(m, name) ==
    [n \in DOMAIN m |-> [x \in DOMAIN m[n] \ {name} |-> m[n][x]]]

PosMaps(tbl, pm) ==
    {PosMap(tbl, pm),
     WithoutNode(PosMap(tbl, pm), 1),
     WithoutName(PosMap(tbl, pm), <<"s">>)}

RunInit ==
    /\ g \in RunGraphs
    /\ max_edges \in RunBudgets
    /\ segment_sequences \in RunTables
    /\ path_to_steps_map \in PathMaps
    /\ reference_paths \in ListsOf(RunNames)
    /\ possible_bubbles_list \in ListsOf(RunBubbles)
    /\ node_id_to_path_and_pos_map
          \in PosMaps(segment_sequences, path_to_steps_map)
    /\ stuff_to_alts_map = EmptyMap
    /\ current_ref = <<>>
    /\ ref_path = <<>>
    /\ all_path_list = <<>>
    /\ it = [ref |-> 0, bubble |-> 0, path |-> 0]
    /\ vcf_list = <<>>
    /\ hist = [enumerated |-> <<>>, anchors |-> {}]
    /\ rpc = "refs"
    /\ start_node_id = 0
    /\ end_node_id = 0
    /\ all_paths_list = <<>>
    /\ curr_edges = 0
    /\ edges_limit_reached = FALSE
    /\ visited_node_id_set = {}
    /\ q = <<>>
    /\ curr_node = 0
    /\ curr_paths_list = <<>>
    /\ nbrs = <<>>
    /\ expanded = <<>>
    /\ pc = "idle"
    /\ fn = "none"
    /\ path = <<>>
    /\ pos_in_map = 0
    /\ walk = WalkStart(0)
    /\ ar = ArStart
    /\ variants = EmptyMap
    /\ dpc = "idle"
    /\ AuxIdle

RunInputs == <<g, max_edges, segment_sequences, reference_paths,
               path_to_steps_map, possible_bubbles_list,
               node_id_to_path_and_pos_map>>

\* what detect_all_variants does not touch
RunOthers == <<auxVars, start_node_id, end_node_id, all_paths_list, curr_edges,
               edges_limit_reached, visited_node_id_set, q, curr_node,
               curr_paths_list, nbrs, expanded, pc, fn, path, pos_in_map,
               walk, ar, variants, dpc>>

\* the bubble the for loop of detect_variants_per_reference is at
CurrentBubble == possible_bubbles_list[it.bubble + 1]

\* the candidate path the for loop over all_path_list is at
CurrentPath == all_path_list[it.path + 1]

\* for current_ref in reference_paths
InRefs == rpc = "refs" /\ it.ref < Len(reference_paths)

\* path_to_steps_map[current_ref] has no such key: the index panics
RefPanic ==
    /\ InRefs
    /\ reference_paths[it.ref + 1] \notin DOMAIN path_to_steps_map
    /\ current_ref' = reference_paths[it.ref + 1]
    /\ rpc' = "panic"
    /\ UNCHANGED <<RunInputs, RunOthers, ref_path, stuff_to_alts_map,
                   all_path_list, it, vcf_list, hist>>

\* the steps of current_ref are parsed; detect_variants_per_reference starts
RefBegin ==
    /\ InRefs
    /\ reference_paths[it.ref + 1] \in DOMAIN path_to_steps_map
    /\ current_ref' = reference_paths[it.ref + 1]
    /\ ref_path' = path_to_steps_map[reference_paths[it.ref + 1]]
    /\ it' = [it EXCEPT !.bubble = 0]
    /\ rpc' = "bubbles"
    /\ UNCHANGED <<RunInputs, RunOthers, stuff_to_alts_map, all_path_list,
                   vcf_list, hist>>

\* for &(start, end) in possible_bubbles_list
InBubbles == rpc = "bubbles" /\ it.bubble < Len(possible_bubbles_list)

\* the start is not on ref_path: continue
RunBubbleSkip ==
    /\ InBubbles
    /\ Position(ref_path, CurrentBubble[1]) = -1
    /\ it' = [it EXCEPT !.bubble = @ + 1]
    /\ UNCHANGED <<RunInputs, RunOthers, current_ref, ref_path,
                   stuff_to_alts_map, all_path_list, vcf_list, hist, rpc>>

\* the start is on ref_path: the enumerator gives the candidate paths
RunEnumerate ==
    /\ InBubbles
    /\ Position(ref_path, CurrentBubble[1]) # -1
    /\ all_path_list' = find_all_paths_between(g, CurrentBubble[1],
                                               CurrentBubble[2], max_edges)
    /\ it' = [it EXCEPT !.path = 0]
    /\ hist' = [hist EXCEPT
                  !.enumerated = Append(@, <<current_ref, CurrentBubble>>)]
    /\ rpc' = "paths"
    /\ UNCHANGED <<RunInputs, RunOthers, current_ref, ref_path,
                   stuff_to_alts_map, vcf_list>>

\* for path in &all_path_list
InPaths == rpc = "paths" /\ it.path < Len(all_path_list)

\* node_id_to_path_and_pos_map.get(&start) and path_map.get(x) are Some
PosKnown ==
    /\ CurrentBubble[1] \in DOMAIN node_id_to_path_and_pos_map
    /\ current_ref \in DOMAIN node_id_to_path_and_pos_map[CurrentBubble[1]]

\* one of the two unwraps is on None
ComparePanic ==
    /\ InPaths
    /\ ~PosKnown
    /\ rpc' = "panic"
    /\ UNCHANGED <<RunInputs, RunOthers, current_ref, ref_path,
                   stuff_to_alts_map, all_path_list, it, vcf_list, hist>>

\* the walk over one candidate path, from the first occurrence of the start
Compare ==
    /\ InPaths
    /\ PosKnown
    /\ LET sidx == Position(ref_path, CurrentBubble[1])
           res  == WalkLoop(current_ref, segment_sequences, ref_path,
                            CurrentPath, sidx,
                            WalkStart(node_id_to_path_and_pos_map
                                          [CurrentBubble[1]][current_ref]),
                            stuff_to_alts_map)
       IN /\ stuff_to_alts_map' = res.map
          /\ rpc' = IF res.abort THEN "panic" ELSE "paths"
          /\ hist' = [hist EXCEPT
                        !.anchors = @ \cup {<<current_ref, CurrentBubble,
                                              CurrentPath, sidx>>}]
    /\ it' = [it EXCEPT !.path = @ + 1]
    /\ UNCHANGED <<RunInputs, RunOthers, current_ref, ref_path, all_path_list,
                   vcf_list>>

\* all_path_list is exhausted: next bubble
PathsEnd ==
    /\ rpc = "paths"
    /\ it.path >= Len(all_path_list)
    /\ it' = [it EXCEPT !.bubble = @ + 1]
    /\ rpc' = "bubbles"
    /\ UNCHANGED <<RunInputs, RunOthers, current_ref, ref_path,
                   stuff_to_alts_map, all_path_list, vcf_list, hist>>

\* possible_bubbles_list is exhausted: detect_variants_per_reference returns
BubblesEnd ==
    /\ rpc = "bubbles"
    /\ it.bubble >= Len(possible_bubbles_list)
    /\ it' = [it EXCEPT !.ref = @ + 1]
    /\ rpc' = "refs"
    /\ UNCHANGED <<RunInputs, RunOthers, current_ref, ref_path,
                   stuff_to_alts_map, all_path_list, vcf_list, hist>>

\* the orders in which the alternates of every key can be iterated
AltOrders(m) ==
    {f \in [DOMAIN m -> UNION {IterOrders(m[k]) : k \in DOMAIN m}] :
        \A k \in DOMAIN m : f[k] \in IterOrders(m[k])}

\* vcf_list before the sort, for one iteration order of the map and its sets
Records(m, keys, alts) ==
    [i \in 1..Len(keys) |-> VCFRecord(keys[i], alts[keys[i]])]

\* every reference is done: the map is iterated, the records are built in
\* the order the iterators yield, vcf_list is sorted and returned
RunReturn ==
    /\ rpc = "refs"
    /\ it.ref >= Len(reference_paths)
    /\ \A k \in DOMAIN stuff_to_alts_map : ParseOk(At(split_str(k, "_"), 1))
    /\ \E keys \in IterOrders(DOMAIN stuff_to_alts_map) :
          \E alts \in AltOrders(stuff_to_alts_map) :
             vcf_list' = sort_by(Records(stuff_to_alts_map, keys, alts))
    /\ rpc' = "done"
    /\ UNCHANGED <<RunInputs, RunOthers, current_ref, ref_path,
                   stuff_to_alts_map, all_path_list, it, hist>>

RunNext ==
    \/ RefPanic
    \/ RefBegin
    \/ RunBubbleSkip
    \/ RunEnumerate
    \/ ComparePanic
    \/ Compare
    \/ PathsEnd
    \/ BubblesEnd
    \/ RunReturn

SpecRun == RunInit /\ [][RunNext]_vars

(***************************************************************************)
(* Runs of detect_all_variants over reference names that hold the byte     *)
(* that joins the parts of a key.                                          *)
(***************************************************************************)
KeyNames == {<<"r">>, <<"r", "_", "1">>, <<"a", "_", "b">>}

KeyBubbles == {<<1, 4>>, <<4, 1>>}

KeyRefPath == <<1, 2, 1, 3>>

\* every name has the path, or every name but r
KeyPathMaps == {[name \in D |-> KeyRefPath] :
                   D \in {KeyNames, KeyNames \ {<<"r">>}}}

KeyInit ==
    /\ g = GraphOf(Diamond)
    /\ max_edges \in RunBudgets
    /\ segment_sequences = SeqTable1
    /\ path_to_steps_map \in KeyPathMaps
    /\ reference_paths \in ListsOf(KeyNames)
    /\ possible_bubbles_list \in ListsOf(KeyBubbles)
    /\ node_id_to_path_and_pos_map
          \in {PosMap(segment_sequences, path_to_steps_map),
               WithoutNode(PosMap(segment_sequences, path_to_steps_map), 1)}
    /\ stuff_to_alts_map = EmptyMap
    /\ current_ref = <<>>
    /\ ref_path = <<>>
    /\ all_path_list = <<>>
    /\ it = [ref |-> 0, bubble |-> 0, path |-> 0]
    /\ vcf_list = <<>>
    /\ hist = [enumerated |-> <<>>, anchors |-> {}]
    /\ rpc = "refs"
    /\ start_node_id = 0
    /\ end_node_id = 0
    /\ all_paths_list = <<>>
    /\ curr_edges = 0
    /\ edges_limit_reached = FALSE
    /\ visited_node_id_set = {}
    /\ q = <<>>
    /\ curr_node = 0
    /\ curr_paths_list = <<>>
    /\ nbrs = <<>>
    /\ expanded = <<>>
    /\ pc = "idle"
    /\ fn = "none"
    /\ path = <<>>
    /\ pos_in_map = 0
    /\ walk = WalkStart(0)
    /\ ar = ArStart
    /\ variants = EmptyMap
    /\ dpc = "idle"
    /\ AuxIdle

\* every reference is done and the second part of a key is no number:
\* pos.parse().unwrap() panics, in whatever order the map is iterated
RunReturnPanic ==
    /\ rpc = "refs"
    /\ it.ref >= Len(reference_paths)
    /\ \E k \in DOMAIN stuff_to_alts_map : ~ParseOk(At(split_str(k, "_"), 1))
    /\ rpc' = "panic"
    /\ UNCHANGED <<RunInputs, RunOthers, current_ref, ref_path,
                   stuff_to_alts_map, all_path_list, it, vcf_list, hist>>

KeyNext == RunNext \/ RunReturnPanic

SpecKey == KeyInit /\ [][KeyNext]_vars

(***************************************************************************)
(* load_ultrabubbles, and what gfa2vcf prints after it.                    *)
(***************************************************************************)
MaxLines == 2

Tab == "\t"

\* the lines of the files: two records, a record with a third field, a
\* record with signed fields, and lines that miss a field or a number
LoadLines ==
    {<<"1", Tab, "2">>,
     <<"3", Tab, "1", "0">>,
     <<"1", Tab, "2", Tab, "x">>,
     <<"+", "1", Tab, "2">>,
     <<>>,
     <<"1">>,
     <<"1", Tab>>,
     <<Tab, "2">>,
     <<"x", Tab, "2">>,
     <<"1", Tab, "-", "2">>}

LINE_ERROR == "Ultrabubble record was missing fields"

\* the parse that reads 0 where the field is no number
ParseU64_Lenient(s) ==
    IF s # <<>> /\ \A i \in 1..Len(s) : \E d \in 1..10 : Digits[d] = s[i]
    THEN parse(s) ELSE 0

\* str::parse::<u64>: an optional plus sign, then one digit or more; -1
\* stands for the Err
ParseU64(s) ==
    LET digits == IF s # <<>> /\ s[1] = "+" THEN Tail(s) ELSE s
    IN IF digits # <<>>
          /\ \A i \in 1..Len(digits) : \E d \in 1..10 : Digits[d] = digits[i]
       THEN parse(digits)
       ELSE -1

\* the body of the for loop for one line: the pair, or the error returned
LoadLine(line) ==
    LET fields == split_str(line, Tab)
    IN IF ParseU64(fields[1]) = -1
       THEN [ok |-> FALSE, err |-> "ParseIntError"]
       ELSE IF Len(fields) < 2
       THEN [ok |-> FALSE, err |-> LINE_ERROR]
       ELSE IF ParseU64(fields[2]) = -1
       THEN [ok |-> FALSE, err |-> "ParseIntError"]
       ELSE [ok |-> TRUE,
             pair |-> <<ParseU64(fields[1]), ParseU64(fields[2])>>]

LoadFiles == UNION {[1..k -> LoadLines] : k \in 0..MaxLines}

LoadInit ==
    /\ \E file \in LoadFiles :
          load = [lines |-> file, line |-> 0, ultrabubbles |-> {},
                  result |-> [ok |-> FALSE, err |-> "none"],
                  printed |-> <<>>, pc |-> "lines"]
    /\ EnumIdle
    /\ DiffIdle
    /\ RunIdle
    /\ PathIdle
    /\ SubIdle
    /\ ExtIdle

LoadRest == <<enumVars, diffVars, runVars, ph, sub, ext>>

\* for line in lines: the line is a record, its pair goes into the set
LoadInsert ==
    /\ load.pc = "lines"
    /\ load.line < Len(load.lines)
    /\ LoadLine(load.lines[load.line + 1]).ok
    /\ load' = [load EXCEPT
                  !.ultrabubbles =
                      @ \cup {LoadLine(load.lines[load.line + 1]).pair},
                  !.line = @ + 1]
    /\ UNCHANGED LoadRest

\* a ? of the loop body returns the error; the set is dropped
LoadFail ==
    /\ load.pc = "lines"
    /\ load.line < Len(load.lines)
    /\ ~LoadLine(load.lines[load.line + 1]).ok
    /\ load' = [load EXCEPT
                  !.result = LoadLine(load.lines[load.line + 1]),
                  !.pc = "loaded"]
    /\ UNCHANGED LoadRest

\* the lines are exhausted: Ok(ultrabubbles)
LoadOk ==
    /\ load.pc = "lines"
    /\ load.line >= Len(load.lines)
    /\ load' = [load EXCEPT
                  !.result = [ok |-> TRUE, set |-> load.ultrabubbles],
                  !.pc = "loaded"]
    /\ UNCHANGED LoadRest

\* gfa2vcf: load_ultrabubbles(path)? returns the error to the caller
Gfa2vcfFail ==
    /\ load.pc = "loaded"
    /\ ~load.result.ok
    /\ load' = [load EXCEPT !.pc = "failed"]
    /\ UNCHANGED LoadRest

\* gfa2vcf: the header is printed, then the records; a pair stands for the
\* records of its bubble, and a bubble may have none
Gfa2vcfPrint ==
    /\ load.pc = "loaded"
    /\ load.result.ok
    /\ \E bubbles \in SUBSET load.result.set :
          \E records \in IterOrders(bubbles) :
             load' = [load EXCEPT !.printed = <<"header">> \o records,
                                  !.pc = "printed"]
    /\ UNCHANGED LoadRest

LoadNext ==
    \/ LoadInsert
    \/ LoadFail
    \/ LoadOk
    \/ Gfa2vcfFail
    \/ Gfa2vcfPrint

SpecLoad == LoadInit /\ [][LoadNext]_vars

(***************************************************************************)
(* The path helpers of main.rs: gfa_to_name_map_path, converted_gfa_path   *)
(* and restored_gfa_path.  They are called with the path of a GFA file     *)
(* that has been parsed, so the path ends in a file name.                  *)
(***************************************************************************)
MaxDirs == 2

RootDir == <<"/">>
ParentDir == <<".", ".">>

\* the directory components and the file names of the arguments
DirNames == {ParentDir, <<"d">>, <<"d", ".", "e">>}

FileNames ==
    {<<"f", ".", "g", "f", "a">>,
     <<"f">>,
     <<"f", ".", "a", ".", "g", "f", "a">>,
     <<".", "g", "f", "a">>,
     <<".", "f", ".", "g", "f", "a">>,
     <<"f", ".">>,
     <<"f", ".", ".", "g">>}

PathArgs ==
    {root \o dirs \o <<name>> :
        root \in {<<>>, <<RootDir>>},
        dirs \in UNION {[1..k -> DirNames] : k \in 0..MaxDirs},
        name \in FileNames}

Helpers == {"gfa_to_name_map_path", "converted_gfa_path", "restored_gfa_path"}

\* the literal of the format! of each helper, after the {}
Suffix(helper) ==
    IF helper = "gfa_to_name_map_path" THEN <<".", "n", "a", "m", "e", "_", "m", "a", "p", ".", "j", "s", "o", "n">>
    ELSE IF helper = "converted_gfa_path" THEN <<".", "u", "i", "n", "t", "_", "i", "d", "s", ".", "g", "f", "a">>
    ELSE <<".", "s", "t", "r", "_", "i", "d", "s", ".", "g", "f", "a">>

\* Path::file_name: the last component when it is a name; <<>> for None
file_name(p) ==
    IF p = <<>> \/ p[Len(p)] \in {RootDir, ParentDir} THEN <<>>
    ELSE p[Len(p)]

\* the index of the last dot of a name, 0 when it has none
LastDot(name) ==
    LET dots == {i \in 1..Len(name) : name[i] = "."}
    IN IF dots = {} THEN 0 ELSE CHOOSE i \in dots : \A j \in dots : j <= i

\* the stem that ends at the first dot of the name
file_stem_FirstDot(p) ==
    LET name == file_name(p)
        dots == {i \in 2..Len(name) : name[i] = "."}
    IN IF dots = {} THEN name
       ELSE SubSeq(name, 1, (CHOOSE i \in dots : \A j \in dots : i <= j) - 1)

\* Path::file_stem: the name up to its last dot; the whole name when it has
\* no dot or only a leading one; <<>> for None
file_stem(p) ==
    LET name == file_name(p)
    IN IF LastDot(name) <= 1 THEN name
       ELSE SubSeq(name, 1, LastDot(name) - 1)

\* PathBuf::set_file_name: pop the file name, if there is one, and push
set_file_name(p, name) ==
    IF file_name(p) # <<>> THEN Append(SubSeq(p, 1, Len(p) - 1), name)
    ELSE Append(p, name)

\* the body the three helpers share
HelperResult(helper, p) ==
    set_file_name(p, file_stem(p) \o Suffix(helper))

PathInit ==
    /\ \E helper \in Helpers, p \in PathArgs :
          ph = [helper |-> helper, path |-> p, new_path |-> <<>>,
                pc |-> "called"]
    /\ EnumIdle
    /\ DiffIdle
    /\ RunIdle
    /\ LoadIdle
    /\ SubIdle
    /\ ExtIdle

PathRest == <<enumVars, diffVars, runVars, load, sub, ext>>

PathHelper(helper) ==
    /\ ph.pc = "called"
    /\ ph.helper = helper
    /\ file_stem(ph.path) # <<>>
    /\ ph' = [ph EXCEPT !.new_path = HelperResult(helper, ph.path),
                        !.pc = "returned"]
    /\ UNCHANGED PathRest

GfaToNameMapPath == PathHelper("gfa_to_name_map_path")

ConvertedGfaPath == PathHelper("converted_gfa_path")

RestoredGfaPath == PathHelper("restored_gfa_path")

PathNext ==
    \/ GfaToNameMapPath
    \/ ConvertedGfaPath
    \/ RestoredGfaPath

SpecPath == PathInit /\ [][PathNext]_vars

(***************************************************************************)
(* bubble_subpaths: for every path of the GFA, the steps between the two   *)
(* boundaries.  A step is its segment id; the orientation and the overlap  *)
(* of a step are carried along unread and are left out.                    *)
(***************************************************************************)
\* the steps of the paths of the GFA
SubSteps ==
    {<<3, 1, 4, 2, 4>>,
     <<2, 3, 1>>,
     <<4, 3>>,
     <<1, 2, 1>>,
     <<3, 1, 3>>}

\* a path has an overlap for each of its steps, or one less
SubPaths ==
    UNION {{[steps |-> st, overlaps |-> n] : n \in {Len(st) - 1, Len(st)}} :
              st \in SubSteps}

SubBoundaries == {<<1, 2>>, <<2, 1>>, <<1, 1>>, <<4, 2>>}

\* path.iter().zip(path.overlaps.iter()): as long as the shorter of the two
Zipped(p) == SubSeq(p.steps, 1, Min(Len(p.steps), p.overlaps))

\* skip_while(x != from && x != to)
RECURSIVE SkipWhile(_, _, _)
SkipWhile(steps, from, to) ==
    IF steps = <<>> THEN <<>>
    ELSE IF Head(steps) # from /\ Head(steps) # to
    THEN SkipWhile(Tail(steps), from, to)
    ELSE steps

\* scan(first, ...): the steps up to the one after which previous is end
RECURSIVE Scan(_, _, _)
Scan(steps, previous, end) ==
    IF steps = <<>> \/ previous = end THEN <<>>
    ELSE <<Head(steps)>> \o Scan(Tail(steps), Head(steps), end)

\* the closure of the filter_map for a path whose peek() is Some
SubPathOf(name, p, from, to) ==
    LET steps == SkipWhile(Zipped(p), from, to)
        first == Head(steps)
        end   == IF first = from THEN to ELSE from
    IN [path_name |-> name, steps |-> Scan(steps, first, end)]

SubInit ==
    /\ \E paths \in ListsOf(SubPaths), b \in SubBoundaries :
          sub = [paths |-> paths, from |-> b[1], to |-> b[2], next |-> 0,
                 result |-> <<>>, pc |-> "paths"]
    /\ EnumIdle
    /\ DiffIdle
    /\ RunIdle
    /\ LoadIdle
    /\ PathIdle
    /\ ExtIdle

SubRest == <<enumVars, diffVars, runVars, load, ph, ext>>

SubInPaths == sub.pc = "paths" /\ sub.next < Len(sub.paths)

\* steps.peek()? is None: the path gives no SubPath
SubPathNone ==
    /\ SubInPaths
    /\ SkipWhile(Zipped(sub.paths[sub.next + 1]), sub.from, sub.to) = <<>>
    /\ sub' = [sub EXCEPT !.next = @ + 1]
    /\ UNCHANGED SubRest

\* the path gives a SubPath
SubPathSome ==
    /\ SubInPaths
    /\ SkipWhile(Zipped(sub.paths[sub.next + 1]), sub.from, sub.to) # <<>>
    /\ sub' = [sub EXCEPT
                 !.result = Append(@, SubPathOf(sub.next + 1,
                                                sub.paths[sub.next + 1],
                                                sub.from, sub.to)),
                 !.next = @ + 1]
    /\ UNCHANGED SubRest

\* collect()
SubReturn ==
    /\ sub.pc = "paths"
    /\ sub.next >= Len(sub.paths)
    /\ sub' = [sub EXCEPT !.pc = "returned"]
    /\ UNCHANGED SubRest

SubNext ==
    \/ SubPathNone
    \/ SubPathSome
    \/ SubReturn

SpecSub == SubInit /\ [][SubNext]_vars

(***************************************************************************)
(* extract_nodes_in_bubble: a depth-first search from `from` that records, *)
(* for every node pushed, the node it was pushed from, and walks these     *)
(* parent links back from `to` and from every node popped a second time.   *)
(***************************************************************************)
\* stack.push(node); parents.insert(node, current) for every neighbor
RECURSIVE ExtPushAll(_, _, _)
ExtPushAll(e, current, neighbors) ==
    IF neighbors = <<>> THEN e
    ELSE ExtPushAll(
            [e EXCEPT !.stack = Append(@, Head(neighbors)),
                      !.parents = [n \in DOMAIN @ \cup {Head(neighbors)} |->
                                      IF n = Head(neighbors) THEN current
                                      ELSE @[n]]],
            current, Tail(neighbors))

\* stack.pop()
ExtPopped(e) == [e EXCEPT !.stack = SubSeq(@, 1, Len(@) - 1)]

ExtCurrent == ext.stack[Len(ext.stack)]

ExtInit ==
    /\ \E from \in Starts, to \in Nodes :
          \E E \in LinkSetsFrom(from, LiveLinks) :
             ext = [graph |-> GraphOf(E), from |-> from, to |-> to,
                    visited |-> {}, parents |-> EmptyMap, stack |-> <<from>>,
                    paths |-> {}, cur_step |-> 0, cur_path |-> <<>>,
                    pc |-> "while"]
    /\ EnumIdle
    /\ DiffIdle
    /\ RunIdle
    /\ LoadIdle
    /\ PathIdle
    /\ SubIdle

ExtRest == <<enumVars, diffVars, runVars, load, ph, sub>>

ExtInWhile == ext.pc = "while" /\ ext.stack # <<>>

\* a node other than `to` is popped for the first time: its neighbors are
\* pushed
ExtExpand ==
    /\ ExtInWhile
    /\ ExtCurrent \notin ext.visited
    /\ ExtCurrent # ext.to
    /\ ext' = ExtPushAll([ExtPopped(ext) EXCEPT
                             !.visited = @ \cup {ExtCurrent}],
                         ExtCurrent, ext.graph[ExtCurrent])
    /\ UNCHANGED ExtRest

\* `to` is popped for the first time: a back-trace starts from it
ExtReachTo ==
    /\ ExtInWhile
    /\ ExtCurrent \notin ext.visited
    /\ ExtCurrent = ext.to
    /\ ext' = [ExtPopped(ext) EXCEPT !.visited = @ \cup {ExtCurrent},
                                     !.cur_step = ext.to,
                                     !.cur_path = <<>>,
                                     !.pc = "trace"]
    /\ UNCHANGED ExtRest

\* a visited node is popped: a back-trace starts from it
ExtRevisit ==
    /\ ExtInWhile
    /\ ExtCurrent \in ext.visited
    /\ ext' = [ExtPopped(ext) EXCEPT !.cur_step = ExtCurrent,
                                     !.cur_path = <<>>,
                                     !.pc = "trace"]
    /\ UNCHANGED ExtRest

\* while cur_step != from: push the step, go to its parent.  Every node
\* that is popped or is a parent has been pushed, so the get is Some.
ExtTraceStep ==
    /\ ext.pc = "trace"
    /\ ext.cur_step # ext.from
    /\ Len(ext.cur_path) < NumNodes
    /\ ext' = [ext EXCEPT !.cur_path = Append(@, ext.cur_step),
                          !.cur_step = ext.parents[ext.cur_step]]
    /\ UNCHANGED ExtRest

\* The same iteration once cur_path holds NumNodes steps, none of them
\* `from`: a node is in it twice, the parent links lead round a cycle and
\* the loop goes on for ever.  cur_path is not made longer here, it grows
\* without bound.
ExtTraceOn ==
    /\ ext.pc = "trace"
    /\ ext.cur_step # ext.from
    /\ Len(ext.cur_path) >= NumNodes
    /\ ext' = [ext EXCEPT !.cur_step = ext.parents[ext.cur_step]]
    /\ UNCHANGED ExtRest

\* cur_step == from: the path is closed and inserted
ExtTraceEnd ==
    /\ ext.pc = "trace"
    /\ ext.cur_step = ext.from
    /\ ext' = [ext EXCEPT
                 !.paths = @ \cup {Append(ext.cur_path, ext.from)},
                 !.cur_path = Append(@, ext.from),
                 !.pc = "while"]
    /\ UNCHANGED ExtRest

\* the stack is empty: paths is returned
ExtReturn ==
    /\ ext.pc = "while"
    /\ ext.stack = <<>>
    /\ ext' = [ext EXCEPT !.pc = "returned"]
    /\ UNCHANGED ExtRest

ExtNext ==
    \/ ExtExpand
    \/ ExtReachTo
    \/ ExtRevisit
    \/ ExtTraceStep
    \/ ExtTraceOn
    \/ ExtTraceEnd
    \/ ExtReturn

\* the loops of the call run on
SpecExt == ExtInit /\ [][ExtNext]_vars /\ WF_vars(ExtNext)

(***************************************************************************)
(* Properties of find_all_paths_between.                                   *)
(***************************************************************************)
Range(s) == {s[i] : i \in 1..Len(s)}

\* p is a simple directed path of graph from s to e
IsSimplePath(graph, p, s, e) ==
    /\ Len(p) >= 1
    /\ p[1] = s
    /\ p[Len(p)] = e
    /\ \A i \in 1..(Len(p) - 1) : HasEdge(graph, p[i], p[i + 1])
    /\ \A i, j \in 1..Len(p) : i # j => p[i] # p[j]

\* the simple paths that extend the simple path p to e
RECURSIVE SimpleExtensions(_, _, _)
SimpleExtensions(graph, p, e) ==
    IF p[Len(p)] = e THEN {p}
    ELSE UNION {SimpleExtensions(graph, Append(p, n), e) :
                   n \in {m \in Range(graph[p[Len(p)]]) : m \notin Range(p)}}

\* brute force: every simple directed path of graph from s to e
SimplePaths(graph, s, e) == SimpleExtensions(graph, <<s>>, e)

\* no node reaches itself
Acyclic(graph) ==
    \A n \in Nodes :
        n \notin ReachFrom({<<a, b>> \in Nodes \X Nodes : HasEdge(graph, a, b)},
                           Range(graph[n]))

Returned == pc = "done"

\* C1: on an acyclic graph, with start # end and max_edges at least the number
\* of edges, the returned paths are exactly the simple directed paths from
\* start to end.
C1_AcyclicAllSimplePaths ==
    (/\ Returned
     /\ Acyclic(g)
     /\ start_node_id # end_node_id
     /\ max_edges >= NumEdges(g))
        => Range(all_paths_list) = SimplePaths(g, start_node_id, end_node_id)

\* C2: every returned path is a simple path from start to end: it starts at
\* start, ends at end, follows rightward edges and repeats no node.
C2_ReturnedPathsSimple ==
    Returned =>
        \A i \in 1..Len(all_paths_list) :
            IsSimplePath(g, all_paths_list[i], start_node_id, end_node_id)

\* a path is returned from a graph with a self-loop on start and a cycle
C2_Witness ==
    /\ Returned
    /\ HasEdge(g, start_node_id, start_node_id)
    /\ \E n \in Nodes \ {start_node_id} :
          n \in ReachFrom({<<a, b>> \in Nodes \X Nodes : HasEdge(g, a, b)},
                          Range(g[n]))
    /\ Len(all_paths_list) >= 1
    /\ start_node_id # end_node_id

\* C3: with start = end the call returns exactly the one path [start],
\* whatever the graph and the budget.
C3_StartIsEnd ==
    (Returned /\ start_node_id = end_node_id)
        => all_paths_list = <<<<start_node_id>>>>

\* start = end, a negative budget and a start node with edges
C3_Witness ==
    /\ Returned
    /\ start_node_id = end_node_id
    /\ max_edges < 0
    /\ Len(g[start_node_id]) >= 2

\* C4: with max_edges = 0, start # end and an outgoing edge on start, the
\* returned list is empty.
C4_ZeroBudgetEmpty ==
    (/\ Returned
     /\ max_edges = 0
     /\ start_node_id # end_node_id
     /\ g[start_node_id] # <<>>)
        => all_paths_list = <<>>

\* C5: once the budget is exceeded the loops are left, and the returned paths
\* are among those returned under an unlimited budget.
C5_PartialIsSubset ==
    /\ edges_limit_reached => pc \in {"retain", "done"}
    /\ (Returned /\ edges_limit_reached)
           => Range(all_paths_list) \subseteq
                 Range(find_all_paths_between(g, start_node_id, end_node_id,
                                              I32Max))

\* the budget cut the enumeration short: something is returned, and less than
\* the unlimited enumeration returns
C5_Witness ==
    /\ Returned
    /\ edges_limit_reached
    /\ Len(all_paths_list) >= 1
    /\ Range(all_paths_list) #
          Range(find_all_paths_between(g, start_node_id, end_node_id, I32Max))

\* C6: the caller can tell a result returned under budget exhaustion from a
\* complete one.  The caller receives the returned list and nothing else, so
\* the list returned with the budget exceeded has to differ from the list of
\* the complete enumeration.
C6_ExhaustionVisibleToCaller ==
    (Returned /\ edges_limit_reached)
        => all_paths_list #
              find_all_paths_between(g, start_node_id, end_node_id, I32Max)

(***************************************************************************)
(* Properties of the differs.                                              *)
(***************************************************************************)
\* p is an initial segment of s
IsPrefixOf(p, s) == Len(p) <= Len(s) /\ \A i \in 1..Len(p) : p[i] = s[i]

\* the reference path from the first occurrence of the bubble start
RefFromStart == SubSeq(ref_path, StartIndex + 1, Len(ref_path))

PerRef == fn = "per_reference" /\ StartIndex # -1

AgainstRef == fn = "against_ref"

Bases(n) == Sequence(segment_sequences, n)

\* the aggregate map with the one key k and the one alternate a
OneEntry(k, a) == [x \in {k} |-> {a}]

\* the variants map with the one key k and the variant v
OneVariant(k, v) == [x \in {k} |-> v]

\* C7: a candidate that is node for node the reference from the bubble start
\* yields no variant: the walk leaves the aggregate map without key or
\* alternate, and detect_variants_against_ref returns an empty map.
C7_IdenticalNoVariant ==
    /\ (PerRef /\ IsPrefixOf(path, RefFromStart))
           => stuff_to_alts_map = EmptyMap
    /\ (AgainstRef /\ IsPrefixOf(path, ref_path))
           => (variants = EmptyMap /\ dpc # "panic")

\* the walk has compared a three-node candidate with the same three reference
\* nodes, step by step
C7_Witness ==
    /\ PerRef
    /\ dpc = "done"
    /\ Len(path) = 3
    /\ IsPrefixOf(path, RefFromStart)
    /\ walk.current_index_step_path = 3

\* reference A-B-C and candidate A-D-C, with A, B, C, D different nodes
SubstitutionCase(ref) ==
    /\ Len(path) = 3
    /\ Len(ref) >= 3
    /\ ref[1] = path[1]
    /\ ref[3] = path[3]
    /\ Cardinality({path[1], path[2], path[3], ref[2]}) = 4

\* C8: for reference A-B-C and candidate A-D-C the differ records exactly
\* one variant, an SNV at the reference position that follows A's last base,
\* with REF = B's sequence and ALT = the last base of D's sequence.
C8_Substitution ==
    /\ (PerRef /\ dpc = "done" /\ SubstitutionCase(RefFromStart))
           => stuff_to_alts_map =
                 OneEntry(Join3(current_ref,
                                to_string(pos_in_map + 1 + Len(Bases(path[1]))),
                                Bases(RefFromStart[2])),
                          LastByte(Bases(path[2])) \o <<"_", "s", "n", "v">>)
    /\ (AgainstRef /\ SubstitutionCase(ref_path))
           => /\ dpc # "panic"
              /\ dpc = "done"
                    => variants =
                          OneVariant(VariantKey(current_ref, Bases(ref_path[2]),
                                                Len(Bases(path[1]))),
                                     [kind |-> "Snv",
                                      val  |-> LastByte(Bases(path[2]))])

\* A = "AC", B = "G", C = "T", D = "C": the walk has recorded REF G, ALT C at
\* position 3
C8_Witness ==
    /\ PerRef
    /\ dpc = "done"
    /\ segment_sequences = SeqTable1
    /\ pos_in_map = 0
    /\ ref_path = <<1, 2, 3>>
    /\ path = <<1, 4, 3>>
    /\ stuff_to_alts_map =
          OneEntry(<<"r", "_", "3", "_", "G">>, <<"C", "_", "s", "n", "v">>)

\* reference A-B-C and candidate A-C, with A, B, C different nodes
DeletionCase(ref) ==
    /\ Len(path) = 2
    /\ Len(ref) >= 3
    /\ ref[1] = path[1]
    /\ ref[3] = path[2]
    /\ Cardinality({path[1], path[2], ref[2]}) = 3

\* C9: for reference A-B-C and candidate A-C the differ records exactly one
\* variant, a Deletion at the position of A's last base, with REF = the last
\* base of A followed by B's sequence and ALT = the last base of A.
C9_Deletion ==
    /\ (PerRef /\ dpc = "done" /\ DeletionCase(RefFromStart))
           => stuff_to_alts_map =
                 OneEntry(Join3(current_ref,
                                to_string(pos_in_map + Len(Bases(path[1]))),
                                LastByte(Bases(path[1])) \o Bases(RefFromStart[2])),
                          LastByte(Bases(path[1])) \o <<"_", "d", "e", "l">>)
    /\ (AgainstRef /\ DeletionCase(ref_path))
           => /\ dpc # "panic"
              /\ dpc = "done"
                    => variants =
                          OneVariant(VariantKey(current_ref,
                                                LastByte(Bases(path[1]))
                                                    \o Bases(ref_path[2]),
                                                Len(Bases(path[1])) - 1),
                                     [kind |-> "Del",
                                      val  |-> LastByte(Bases(path[1]))])

\* reference A-C and candidate A-B-C, with A, B, C different nodes
InsertionCase(ref) ==
    /\ Len(path) = 3
    /\ Len(ref) >= 2
    /\ ref[1] = path[1]
    /\ ref[2] = path[3]
    /\ Cardinality({path[1], path[2], path[3]}) = 3

\* C10: for reference A-C and candidate A-B-C the differ records exactly one
\* variant, an Insertion at the position of A's last base, anchored on the
\* last base of A, whose alternate is that base followed by B's sequence.
C10_Insertion ==
    /\ (PerRef /\ dpc = "done" /\ InsertionCase(RefFromStart))
           => stuff_to_alts_map =
                 OneEntry(Join3(current_ref,
                                to_string(pos_in_map + Len(Bases(path[1]))),
                                LastByte(Bases(path[1]))),
                          LastByte(Bases(path[1])) \o Bases(path[2])
                              \o <<"_", "i", "n", "s">>)
    /\ (AgainstRef /\ InsertionCase(ref_path))
           => /\ dpc # "panic"
              /\ dpc = "done"
                    => variants =
                          OneVariant(VariantKey(current_ref,
                                                LastByte(Bases(path[1])),
                                                Len(Bases(path[1])) - 1),
                                     [kind |-> "Ins",
                                      val  |-> LastByte(Bases(path[1]))
                                                  \o Bases(path[2])])

\* the number of bases of the first k nodes of the node sequence s
RECURSIVE BasesBefore(_, _)
BasesBefore(s, k) ==
    IF k = 0 THEN 0 ELSE BasesBefore(s, k - 1) + Len(Bases(s[k]))

\* the 1-based reference coordinate of the first base of the reference node
\* under the walk's cursor
RefAnchor ==
    pos_in_map + 1 + BasesBefore(RefFromStart, walk.current_index_step_ref)

\* C11: the position in every key is a reference coordinate: the start's
\* offset plus the lengths of the reference nodes walked before the anchor,
\* whatever the lengths of the nodes that are on the candidate only.  A
\* substitution is keyed at the first base of the replaced reference node, a
\* deletion and an insertion at the last base of the reference node before.
C11_ReferenceCoordinates ==
    /\ Walking("snv")
          => SnvKey(current_ref, segment_sequences, ref_path, path,
                    StartIndex, walk)
             = Join3(current_ref, to_string(RefAnchor),
                     Bases(At(ref_path, walk.current_index_step_ref + StartIndex)))
    /\ Walking("del")
          => DelKey(current_ref, segment_sequences, ref_path, path,
                    StartIndex, walk)
             = Join3(current_ref, to_string(RefAnchor - 1),
                     get_last(Bases(At(ref_path, walk.current_index_step_ref
                                                     + StartIndex - 1)),
                              Bases(At(ref_path, walk.current_index_step_ref
                                                     + StartIndex))))
    /\ Walking("ins")
          => InsKey(current_ref, segment_sequences, ref_path, path,
                    StartIndex, walk)
             = Join3(current_ref, to_string(RefAnchor - 1),
                     LastByte(Bases(At(ref_path, walk.current_index_step_ref
                                                     + StartIndex - 1))))
    /\ Looping("snv")
          => ArSnvKey(current_ref, segment_sequences, ref_path, path, ar).pos
             = BasesBefore(ref_path, ar.ref_ix)
    /\ Looping("del")
          => ArDelKey(current_ref, segment_sequences, ref_path, path, ar).pos
             = BasesBefore(ref_path, ar.ref_ix) - 1
    /\ Looping("ins")
          => ArInsKey(current_ref, segment_sequences, ref_path, path, ar).pos
             = BasesBefore(ref_path, ar.ref_ix) - 1

\* C12: whatever the reference and the candidate, the differ returns
\* normally: no step reads a path out of range and the call is not aborted;
\* and two paths without a common node yield no variant.
C12_ReturnsNormally ==
    /\ dpc # "panic"
    /\ ~Walking("panic")
    /\ ~Looping("panic")
    /\ (AgainstRef /\ Range(ref_path) \cap Range(path) = {})
           => variants = EmptyMap

(***************************************************************************)
(* Properties of detect_all_variants.                                      *)
(***************************************************************************)
RunDone == rpc = "done"

\* C13: a lookup miss, of the reference name in path_to_steps_map or of the
\* bubble start or the reference name in node_id_to_path_and_pos_map, never
\* aborts the run.
C13_LookupMissRecovered ==
    ~(/\ rpc = "panic"
      /\ \/ current_ref \notin DOMAIN path_to_steps_map
         \/ ~PosKnown)

\* C14: a bubble whose start is not on the reference path is passed over: the
\* aggregate map stays as it is, the enumerator is not called, the candidate
\* list stays as it is, and the loop is at the next bubble.
C14_StartOffReference ==
    [][(InBubbles /\ ~Contains(ref_path, CurrentBubble[1]))
          => /\ stuff_to_alts_map' = stuff_to_alts_map
             /\ hist' = hist
             /\ all_path_list' = all_path_list
             /\ rpc' = "bubbles"
             /\ it' = [it EXCEPT !.bubble = @ + 1]]_vars

\* the run is over; the first bubble of the list was passed over for a
\* reference and the second gave that reference a variant
C14_Witness ==
    /\ RunDone
    /\ Len(possible_bubbles_list) = 2
    /\ \E name \in Range(reference_paths) :
          /\ ~Contains(path_to_steps_map[name], possible_bubbles_list[1][1])
          /\ <<name, possible_bubbles_list[1]>> \notin Range(hist.enumerated)
          /\ <<name, possible_bubbles_list[2]>> \in Range(hist.enumerated)
    /\ stuff_to_alts_map # EmptyMap

\* the 0-based indices at which n is on p
Occurrences(p, n) == {k \in 0..(Len(p) - 1) : At(p, k) = n}

\* C15: every occurrence of a bubble's start on a reference path is an
\* anchor: each candidate path of the bubble is compared with the reference
\* from each occurrence.
C15_EveryOccurrenceAnchors ==
    RunDone =>
        \A name \in Range(reference_paths) :
            \A b \in Range(possible_bubbles_list) :
                \A k \in Occurrences(path_to_steps_map[name], b[1]) :
                    \A p \in Range(find_all_paths_between(g, b[1], b[2],
                                                          max_edges)) :
                        <<name, b, p, k>> \in hist.anchors

\* C16: the returned list is in non-decreasing order of chromosome, as
\* bytes, and then of position, as an integer.
C16_OutputSorted ==
    RunDone =>
        \A i, j \in 1..Len(vcf_list) :
            i < j =>
                \/ BytesCmp(vcf_list[i].chromosome, vcf_list[j].chromosome)
                      = "Less"
                \/ /\ vcf_list[i].chromosome = vcf_list[j].chromosome
                   /\ vcf_list[i].position <= vcf_list[j].position

\* records of two chromosomes, and two positions on one chromosome
C16_Witness ==
    /\ RunDone
    /\ \E i, j \in 1..Len(vcf_list) :
          vcf_list[i].chromosome # vcf_list[j].chromosome
    /\ \E i, j \in 1..Len(vcf_list) :
          /\ vcf_list[i].chromosome = vcf_list[j].chromosome
          /\ vcf_list[i].position < vcf_list[j].position

\* C17: the returned list does not depend on the order in which the
\* aggregate map and its alternate sets are iterated: every iteration order
\* gives the list that was returned.
C17_OutputDeterministic ==
    RunDone =>
        \A keys \in IterOrders(DOMAIN stuff_to_alts_map) :
            \A alts \in AltOrders(stuff_to_alts_map) :
                sort_by(Records(stuff_to_alts_map, keys, alts)) = vcf_list

\* C18: the alleles of the ALT field of a record are pairwise distinct.
C18_AltAllelesDistinct ==
    RunDone =>
        \A i \in 1..Len(vcf_list) :
            IsSimple(split_str(vcf_list[i].alternate, ","))

\* what the walk over the candidate path p of the bubble b records for the
\* reference name, on its own
Contribution(name, b, p) ==
    WalkLoop(name, segment_sequences, path_to_steps_map[name], p,
             Position(path_to_steps_map[name], b[1]),
             WalkStart(node_id_to_path_and_pos_map[b[1]][name]),
             EmptyMap).map

\* the (reference, bubble, candidate path) triples of the run, as a set
Triples ==
    {t \in Range(reference_paths) \X Range(possible_bubbles_list)
              \X UNION {Range(find_all_paths_between(g, b[1], b[2], max_edges)) :
                           b \in Range(possible_bubbles_list)} :
        /\ Contains(path_to_steps_map[t[1]], t[2][1])
        /\ t[3] \in Range(find_all_paths_between(g, t[2][1], t[2][2],
                                                 max_edges))}

\* the union of the contributions, key by key
FoldedSet ==
    LET parts == {Contribution(t[1], t[2], t[3]) : t \in Triples}
    IN [k \in UNION {DOMAIN m : m \in parts} |->
           UNION {m[k] : m \in {x \in parts : k \in DOMAIN x}}]

\* C19: the final aggregate map is the key-by-key union of what each
\* (reference, bubble, candidate path) triple records on its own, whatever
\* the order of the reference list and of the bubble list and however often
\* a reference or a bubble is listed.
C19_FoldOrderIndependent ==
    RunDone => stuff_to_alts_map = FoldedSet

\* a bubble is listed twice, two candidate paths gave one key two alternates
C19_Witness ==
    /\ RunDone
    /\ Len(possible_bubbles_list) = 2
    /\ possible_bubbles_list[1] = possible_bubbles_list[2]
    /\ \E k \in DOMAIN stuff_to_alts_map :
          Cardinality(stuff_to_alts_map[k]) = 2

\* C20: a step of the run leaves every key in the aggregate map and every
\* alternate in its set, and the records are built from the map only when
\* the loop over the references is over; the map is the same afterwards.
C20_MapOnlyGrows ==
    [][/\ \A k \in DOMAIN stuff_to_alts_map :
             /\ k \in DOMAIN stuff_to_alts_map'
             /\ stuff_to_alts_map[k] \subseteq stuff_to_alts_map'[k]
       /\ (vcf_list' # vcf_list \/ rpc' = "done")
             => /\ rpc = "refs"
                /\ it.ref = Len(reference_paths)
                /\ stuff_to_alts_map' = stuff_to_alts_map]_vars

\* records were built from a map that two references had filled
C20_Witness ==
    /\ RunDone
    /\ Len(reference_paths) = 2
    /\ Len(vcf_list) >= 2
    /\ \E i, j \in 1..Len(vcf_list) :
          vcf_list[i].chromosome # vcf_list[j].chromosome

(***************************************************************************)
(* Termination and budget of find_all_paths_between.                       *)
(***************************************************************************)
\* C23: the call returns on every graph and for every budget; no node is
\* expanded twice and the end node is never expanded.
C23_ExpandsOnceAndReturns ==
    /\ [](IsSimple(expanded) /\ ~Contains(expanded, end_node_id))
    /\ <>Returned

\* a call has returned from a graph with a self-loop and a cycle between two
\* expanded nodes, without the budget being exceeded
C23_Witness ==
    /\ Returned
    /\ ~edges_limit_reached
    /\ Len(expanded) >= 2
    /\ \E n \in Range(expanded) : HasEdge(g, n, n)
    /\ \E n, m \in Range(expanded) :
          n # m /\ HasEdge(g, n, m) /\ HasEdge(g, m, n)

RECURSIVE SumOutEdges(_, _)
SumOutEdges(graph, nodes) ==
    IF nodes = <<>> THEN 0
    ELSE Len(graph[Head(nodes)]) + SumOutEdges(graph, Tail(nodes))

\* the edges followed so far: every edge of the nodes expanded, less what the
\* iterator of the last expansion has left
Traversals == SumOutEdges(g, expanded) - Len(nbrs)

\* C25: with max_edges >= 0 a call follows at most max_edges + 1 edges, the
\* one that takes the counter over the budget being the last; the counter is
\* the number of edges followed in this call, from zero.
C25_BudgetCapsTraversals ==
    /\ curr_edges = Traversals
    /\ max_edges >= 0 => Traversals <= max_edges + 1
    /\ (max_edges >= 0 /\ Traversals = max_edges + 1)
          => (edges_limit_reached /\ pc \in {"retain", "done"})

\* a call with a budget of two edges has followed three and returned
C25_Witness ==
    /\ Returned
    /\ max_edges = 2
    /\ Traversals = 3
    /\ nbrs # <<>>

(***************************************************************************)
(* The extent of the walk of detect_variants_per_reference.                *)
(***************************************************************************)
\* the reference index and the candidate index of the next iteration
WalkRi == walk.current_index_step_ref + StartIndex
WalkPi == walk.current_index_step_path

\* an iteration of the for loop is about to run, and which branch it takes
WalkNext == WalkBranch(ref_path, path, StartIndex, walk)
InWalk == fn = "per_reference" /\ dpc = "walk"
         /\ walk.i < Min(Len(path), Len(ref_path))

\* the bubble's end node, the last node of the candidate, and its first
\* occurrence on the reference path from the start on (-1: none)
BubbleEnd == path[Len(path)]
EndIndex ==
    LET after == {k \in StartIndex..(Len(ref_path) - 1) :
                     At(ref_path, k) = BubbleEnd}
    IN IF after = {} THEN -1
       ELSE CHOOSE k \in after : \A j \in after : k <= j

\* C24: no iteration of the walk compares, or keys a variant on, a reference
\* node that lies after the bubble's end node on the reference path.
C24_StopsAtBubbleEnd ==
    (InWalk /\ WalkNext # "skip" /\ EndIndex # -1) => WalkRi <= EndIndex

\* C28: the first iteration of the walk is a match; a deletion or an
\* insertion reads the reference no earlier than the start occurrence; every
\* index read lies inside its path; the loop runs at most
\* min(candidate length, reference length) times.
C28_WalkInRange ==
    fn = "per_reference" =>
       /\ walk.i <= Min(Len(path), Len(ref_path))
       /\ InWalk =>
             /\ WalkNext # "panic"
             /\ walk.i = 0 => WalkNext = "match"
             /\ WalkNext # "skip" =>
                   /\ WalkRi \in 0..(Len(ref_path) - 1)
                   /\ WalkPi \in 0..(Len(path) - 1)
             /\ WalkNext \in {"del", "ins", "snv"} =>
                   /\ WalkRi + 1 <= Len(ref_path) - 1
                   /\ WalkPi + 1 <= Len(path) - 1
             /\ WalkNext \in {"del", "ins"} => WalkRi - 1 >= StartIndex

\* after the match on the start node the walk is about to record a deletion,
\* reading the reference node before the deleted one
C28_Witness ==
    /\ InWalk
    /\ walk.i = 1
    /\ WalkNext = "del"
    /\ At(ref_path, WalkRi - 1) = BubbleStart

(***************************************************************************)
(* The key of an entry of stuff_to_alts_map and the record made from it.   *)
(***************************************************************************)
\* the positions and reference alleles a walk of the runs can key a variant on
KeyMaxPos == OffsetOf(segment_sequences, KeyRefPath, Len(KeyRefPath)) + 1

KeyAlleles ==
    LET seqs == {Sequence(segment_sequences, n) : n \in Nodes}
    IN seqs \cup {get_last(a, b) : a \in seqs, b \in seqs}
            \cup {LastByte(a) : a \in seqs}

\* the (name, position, allele) triples that have an entry in the map
KeyedTriples ==
    {t \in KeyNames \X (0..KeyMaxPos) \X KeyAlleles :
        Join3(t[1], to_string(t[2]), t[3]) \in DOMAIN stuff_to_alts_map}

\* every entry of the map is the entry of one of the triples
KeysCovered ==
    \A k \in DOMAIN stuff_to_alts_map :
       \E t \in KeyedTriples : Join3(t[1], to_string(t[2]), t[3]) = k

\* C26: once the references are done, every (name, position, allele) a
\* variant was recorded under has a record in the output with that
\* chromosome, position and REF, and no two triples share an entry.
C26_KeyRoundTrips ==
    (rpc \in {"done", "panic"} /\ it.ref >= Len(reference_paths)
        /\ stuff_to_alts_map # EmptyMap) =>
       /\ KeysCovered
       /\ \A t1, t2 \in KeyedTriples :
             t1 # t2 => Join3(t1[1], to_string(t1[2]), t1[3])
                           # Join3(t2[1], to_string(t2[2]), t2[3])
       /\ \A t \in KeyedTriples :
             \E i \in 1..Len(vcf_list) :
                /\ vcf_list[i].chromosome = t[1]
                /\ vcf_list[i].position = t[2]
                /\ vcf_list[i].reference = t[3]

(***************************************************************************)
(* What load_ultrabubbles makes of a file.                                 *)
(***************************************************************************)
\* the index of the first tab of a line from index i on, or 0
FirstTab(line, i) ==
    LET tabs == {k \in i..Len(line) : line[k] = Tab}
    IN IF tabs = {} THEN 0 ELSE CHOOSE k \in tabs : \A j \in tabs : k <= j

\* the first field of a line with a tab, and its second field
StartField(line) == SubSeq(line, 1, FirstTab(line, 1) - 1)
EndField(line) ==
    LET t == FirstTab(line, 1)
        u == FirstTab(line, t + 1)
    IN SubSeq(line, t + 1, IF u = 0 THEN Len(line) ELSE u - 1)

\* a decimal number without a sign or with a plus sign
IsUnsigned(field) ==
    \E k \in 1..Len(field) :
       /\ k = 1 \/ (k = 2 /\ field[1] = "+")
       /\ \A i \in k..Len(field) : \E d \in 1..10 : Digits[d] = field[i]

RECURSIVE ValueOf(_)
ValueOf(field) ==
    IF field = <<>> \/ field = <<"+">> THEN 0
    ELSE ValueOf(SubSeq(field, 1, Len(field) - 1)) * 10
            + CHOOSE v \in 0..9 : Digits[v + 1] = field[Len(field)]

WellFormed(line) ==
    /\ FirstTab(line, 1) # 0
    /\ IsUnsigned(StartField(line))
    /\ IsUnsigned(EndField(line))

AllWellFormed == \A i \in 1..Len(load.lines) : WellFormed(load.lines[i])

PairsOfLines ==
    {<<ValueOf(StartField(load.lines[i])), ValueOf(EndField(load.lines[i]))>> :
        i \in 1..Len(load.lines)}

\* C21: with a malformed line in the file load_ultrabubbles returns an error
\* and no set, and gfa2vcf returns before it prints anything; with
\* well-formed lines only it returns the set of the lines' pairs.
C21_MalformedLineFailsLoad ==
    /\ load.pc \in {"loaded", "failed", "printed"} =>
          IF AllWellFormed
          THEN load.result = [ok |-> TRUE, set |-> PairsOfLines]
          ELSE ~load.result.ok /\ DOMAIN load.result = {"ok", "err"}
    /\ ~AllWellFormed => load.printed = <<>> /\ load.pc # "printed"
    /\ load.pc = "failed" => ~AllWellFormed

\* gfa2vcf has returned the error of a file whose first line is a record and
\* whose second line is not: the pair of the first line is not given out
C21_Witness ==
    /\ load.pc = "failed"
    /\ Len(load.lines) = 2
    /\ WellFormed(load.lines[1])
    /\ load.ultrabubbles # {}
    /\ load.printed = <<>>

(***************************************************************************)
(* What the path helpers return.                                           *)
(***************************************************************************)
\* name is stem, or stem, a dot and an extension without a dot; a dot at the
\* head of a name begins no extension
IsStemOf(stem, name) ==
    \/ stem = name /\ \A i \in 2..Len(name) : name[i] # "."
    \/ \E extension \in {SubSeq(name, k, Len(name)) :
                            k \in 3..(Len(name) + 1)} :
          /\ \A i \in 1..Len(extension) : extension[i] # "."
          /\ stem # <<>>
          /\ name = stem \o <<".">> \o extension

\* C22: a helper returns the argument's directory components followed by the
\* one component stem + suffix, and leaves its argument as it was.
C22_OnlyFileNameReplaced ==
    [][/\ ph'.path = ph.path
       /\ ph'.helper = ph.helper
       /\ ph'.pc = "returned" =>
             /\ Len(ph'.new_path) = Len(ph.path)
             /\ \A i \in 1..(Len(ph.path) - 1) : ph'.new_path[i] = ph.path[i]
             /\ \E stem \in {SubSeq(ph.path[Len(ph.path)], 1, k) :
                                k \in 1..Len(ph.path[Len(ph.path)])} :
                   /\ IsStemOf(stem, ph.path[Len(ph.path)])
                   /\ ph'.new_path[Len(ph.path)]
                         = stem \o Suffix(ph.helper)]_vars

\* gfa_to_name_map_path has returned for a rooted path with a parent
\* directory component and a file name of two extensions
C22_Witness ==
    /\ ph.pc = "returned"
    /\ ph.helper = "gfa_to_name_map_path"
    /\ Len(ph.path) = 4
    /\ ph.path[1] = RootDir
    /\ ph.path[3] = ParentDir
    /\ ph.path[4] = <<"f", ".", "a", ".", "g", "f", "a">>
    /\ ph.new_path[4] = <<"f", ".", "a">> \o Suffix(ph.helper)

(***************************************************************************)
(* What bubble_subpaths returns.                                           *)
(***************************************************************************)
\* the first index of steps from index i on that holds one of the nodes, or 0
FirstAt(steps, i, nodes) ==
    LET at == {k \in i..Len(steps) : steps[k] \in nodes}
    IN IF at = {} THEN 0 ELSE CHOOSE k \in at : \A j \in at : k <= j

\* the steps of a path from its first boundary up to the first later
\* occurrence of the other boundary, or up to its end
Between(steps, from, to) ==
    LET i     == FirstAt(steps, 1, {from, to})
        other == IF steps[i] = from THEN to ELSE from
        j     == FirstAt(steps, i + 1, {other})
    IN SubSeq(steps, i, IF j = 0 THEN Len(steps) ELSE j)

\* the paths, by index, that hold a boundary
WithBoundary ==
    {k \in 1..Len(sub.paths) :
        FirstAt(sub.paths[k].steps, 1, {sub.from, sub.to}) # 0}

\* C27: the call returns, for every path that holds a boundary and for no
\* other, one SubPath: the steps from the first boundary up to and including
\* the first later occurrence of the other one.
C27_SubPathBetweenBoundaries ==
    sub.pc = "returned" =>
       /\ {sub.result[i].path_name : i \in 1..Len(sub.result)} = WithBoundary
       /\ Len(sub.result) = Cardinality(WithBoundary)
       /\ \A i \in 1..Len(sub.result) :
             sub.result[i].path_name \in WithBoundary =>
                sub.result[i].steps
                   = Between(sub.paths[sub.result[i].path_name].steps,
                             sub.from, sub.to)

(***************************************************************************)
(* Termination of extract_nodes_in_bubble.                                 *)
(***************************************************************************)
\* C29: every call returns, and no back-trace comes to a node a second
\* time: the parent links do not change during a back-trace, so one that
\* meets a node again goes round for ever.
C29_BackTraceReachesFrom ==
    /\ [](ext.pc = "trace" => ~Contains(ext.cur_path, ext.cur_step))
    /\ <>(ext.pc = "returned")

====
